---- MODULE Spec2Model ----
(***************************************************************************)
(* A model of alluxiofs/client/core.py: the blocking AlluxioClient and the *)
(* suspend-capable AlluxioAsyncFileSystem, talking over HTTP to one worker *)
(* that serves one file.  One operation runs at a time; every HTTP         *)
(* exchange of an operation is one step, and the worker's answer to it is  *)
(* chosen nondeterministically.                                            *)
(***************************************************************************)
EXTENDS Integers, Sequences, FiniteSets, TLC

(* ----------------------------- bounds --------------------------------- *)
MaxPageSize == 2
MaxLen == 5
MaxOffset == 3
MaxLength == 5
MaxPolls == 3
MaxTasks == 3
RingSlots == 2

(* ------------------------- values and inputs --------------------------- *)
Bytes == {"a", "b"}

Contents == UNION {[1..n -> Bytes] : n \in 0..MaxLen}

Min(a, b) == IF a <= b THEN a ELSE b

\* s[lo:hi] of Python for 0 <= lo, 0 <= hi: both ends are clipped to len(s)
PySlice(s, lo, hi) ==
    LET l == Min(lo, Len(s))
        h == Min(hi, Len(s))
    IN  IF h <= l THEN <<>> ELSE SubSeq(s, l + 1, h)

\* the characters [a-zA-Z0-9] that occur in the sample paths
AlNum == {"s", "3", "r", "p"}

\* sample path arguments: "s3://p", "r/p" (relative), "://p", "s3:/p", "/s3://"
GoodPath == <<"s", "3", ":", "/", "/", "p">>

PathSamples ==
    { GoodPath,
      <<"r", "/", "p">>,
      <<":", "/", "/", "p">>,
      <<"s", "3", ":", "/", "p">>,
      <<"/", "s", "3", ":", "/", "/">> }

\* re.search(r"^[a-zA-Z0-9]+://", path): one or more alphanumerics at the
\* start of the string, immediately followed by "://"
MatchesProtocol(path) ==
    \E n \in 1..Len(path) :
        /\ \A i \in 1..n : path[i] \in AlNum
        /\ Len(path) >= n + 3
        /\ path[n + 1] = ":"
        /\ path[n + 2] = "/"
        /\ path[n + 3] = "/"

\* _validate_path: TRUE when it returns, FALSE when it raises ValueError
ValidatePath(path) == MatchesProtocol(path)

(* ------------------------------ state ---------------------------------- *)
VARIABLES
    page_size,   \* self.config.page_size
    file,        \* the bytes the worker holds for the file
    call,        \* the operation in progress or last completed, with its arguments
    pc,          \* "idle", a position inside the operation, or "done"
    frame,       \* the local variables of the operation at pc
    result,      \* what the operation returned or raised
    log,         \* the HTTP exchanges of the operation, in issue order
    ring_log,    \* the hash-ring lookups of the operation, in order
    now,         \* time.time(), counted from the start of the operation
    written,     \* <<data>> right after write(path, data) against a storing worker
    hash_provider, \* self.hash_provider: the ring in use and the refresh in progress
    session      \* self._session of the suspend-capable client, and how many were made

vars == <<page_size, file, call, pc, frame, result, log, ring_log, now, written,
          hash_provider, session>>

NoCall == [client |-> "none", op |-> "none"]

\* AlluxioAsyncFileSystem.__init__, line 1462: self._session = None; current
\* is 0 for None and otherwise the number of the session held, created counts
\* the sessions made
NoSession == [current |-> 0, created |-> 0]
NoFrame == [none |-> TRUE]
NoResult == [kind |-> "none"]
Returned(v) == [kind |-> "return", value |-> v]
Raised(e) == [kind |-> "raise", exc |-> e]

(* ----------------------------- HTTP ------------------------------------ *)
\* requests.Response.raise_for_status(): raises HTTPError for 4xx and 5xx only
RaiseForStatus(status) == 400 <= status /\ status < 600

\* a request that got no response: connection failure, timeout, ...
TransportFailure == [err |-> TRUE, status |-> 0, body |-> <<>>]

Response(status, body) == [err |-> FALSE, status |-> status, body |-> body]

Prefixes(s) == {SubSeq(s, 1, n) : n \in 0..Len(s)}

\* the bytes of the file inside the window a page request addresses
PageWindow(req) ==
    LET base == req.q.page_index * page_size
    IN  IF req.url = "FULL_PAGE_URL_FORMAT"
        THEN PySlice(file, base, base + page_size)
        ELSE PySlice(file,
                     base + req.q.page_offset,
                     base + Min(req.q.page_offset + req.q.page_length, page_size))

\* what the worker may answer to a page GET: nothing, an error status, or a
\* success status with the window or a shorter prefix of it
PageResponses(req) ==
    {TransportFailure}
        \cup {Response(s, <<>>) : s \in {304, 404, 500}}
        \cup {Response(200, b) : b \in Prefixes(PageWindow(req))}

FaithfulPageResponse(req) == Response(200, PageWindow(req))

JsonBody(v) == [json |-> TRUE, value |-> v]
NotJson == [json |-> FALSE]

\* one element of the file-status array; complete = every key the client reads is there
StatusRecord(n, complete) == [mLength |-> n, complete |-> complete]

FileStatusResponses ==
    {TransportFailure}
        \cup {Response(s, NotJson) : s \in {304, 404, 500}}
        \cup {Response(200, NotJson), Response(200, JsonBody(<<>>))}
        \cup {Response(200, JsonBody(<<StatusRecord(n, c)>>)) :
                  n \in 0..MaxLen, c \in BOOLEAN}

FaithfulFileStatusResponse == Response(200, JsonBody(<<StatusRecord(Len(file), TRUE)>>))

(* ---------------------------- hash ring -------------------------------- *)
\* the workers a membership may name, in the order the ring places them
WorkerOrder == <<"w1", "w2">>

\* the memberships a refresh may bring: one worker or more
Memberships == {{"w1"}, {"w2"}, {"w1", "w2"}}

MembersInOrder(members) == SelectSeq(WorkerOrder, LAMBDA w : w \in members)

\* the complete ring of a membership: RingSlots positions, dealt to its
\* workers in turn
RingOf(members) ==
    [i \in 1..RingSlots |->
        MembersInOrder(members)[((i - 1) % Len(MembersInOrder(members))) + 1]]

\* ConsistentHashProvider(config): the ring of the configured workers, no
\* refresh in progress
NewHashProvider ==
    [ring |-> RingOf({"w1"}), target |-> <<>>, built |-> 0, refreshing |-> FALSE]

\* the positions of the ring under construction that are filled so far
PartialRing == SubSeq(hash_provider.target, 1, hash_provider.built)

WorkerRingWhileRebuilding ==
    IF hash_provider.refreshing THEN PartialRing ELSE hash_provider.ring

\* the ring a resolve reads: the snapshot installed last
WorkerRing == hash_provider.ring

\* the stable hash of the path key, as a position to start the walk from
RingStart(path, ring) == (Len(path) % Len(ring)) + 1

\* get_multiple_workers(path, 1) against one ring: the worker found walking
\* from the position of the path; none in a ring without positions
WorkersOfRing(ring, path) ==
    IF ring = <<>> THEN <<>> ELSE <<ring[RingStart(path, ring)]>>

\* hash_provider.get_multiple_workers(path, 1): the list of workers it may return
GetMultipleWorkers == {<<>>, <<"w1">>, <<"w1", "w2">>}

PreferredWorkerTakesFirst(workers) == Len(workers) >= 1

\* _get_preferred_worker_address: TRUE when it returns, FALSE when it raises ValueError
PreferredWorkerOk(workers) == Len(workers) = 1

(* ------------------------- control helpers ----------------------------- *)
CanCall == pc = "idle"

\* the operation has returned or raised: the caller takes the outcome and the
\* client is ready for the next call
ReturnToCaller ==
    /\ pc = "done"
    /\ pc' = "idle"
    /\ call' = NoCall
    /\ frame' = NoFrame
    /\ result' = NoResult
    /\ log' = <<>>
    /\ ring_log' = <<>>
    /\ now' = 0
    /\ UNCHANGED <<page_size, file, written, hash_provider, session>>

\* the steps of an operation read the ring and never change it; the session
\* changes only in the steps of _request, which say so themselves
Finish(res) ==
    /\ pc' = "done"
    /\ frame' = NoFrame
    /\ result' = res
    /\ UNCHANGED <<hash_provider, session>>

Goto(p, f) ==
    /\ pc' = p
    /\ frame' = f
    /\ result' = NoResult
    /\ UNCHANGED <<hash_provider, session>>

\* a new operation starts with empty histories and the clock at 0
Begin(c) ==
    /\ call' = c
    /\ now' = 0
    /\ written' = IF c.client = "sync" /\ c.op = "read" THEN written ELSE <<>>

Exchange(req, resp) == [req |-> req, resp |-> resp]

(* ------------------------ blocking read_range -------------------------- *)
PageRequest(page_index, offset, length) ==
    [method |-> "GET", url |-> "PAGE_URL_FORMAT",
     q |-> [page_index |-> page_index, page_offset |-> offset, page_length |-> length]]

FullPageRequest(page_index) ==
    [method |-> "GET", url |-> "FULL_PAGE_URL_FORMAT",
     q |-> [page_index |-> page_index]]

FileStatusRequest(path) ==
    [method |-> "GET", url |-> "GET_FILE_STATUS_URL_FORMAT", q |-> [path |-> path]]

\* _range_page_generator, lines 1130-1134
StartPageIndex(offset) == offset \div page_size
StartPageOffset(offset) == offset % page_size
EndPageIndexPastRange(offset, length) == (offset + length) \div page_size

EndPageIndex(offset, length) == (offset + length - 1) \div page_size
EndPageReadToOffByOne(offset, length) == ((offset + length) % page_size) + 1

EndPageReadTo(offset, length) == ((offset + length - 1) % page_size) + 1

ReadOffsetAlwaysZero(page_index, offset, length) == 0

\* _range_page_generator, lines 1139-1148: the in-page offset asked of page_index
ReadOffset(page_index, offset, length) ==
    IF page_index = StartPageIndex(offset) THEN StartPageOffset(offset) ELSE 0

\* _range_page_generator, lines 1139-1148: the number of bytes asked of page_index
ReadLength(page_index, offset, length) ==
    IF page_index = StartPageIndex(offset)
    THEN IF StartPageIndex(offset) = EndPageIndex(offset, length)
         THEN EndPageReadTo(offset, length) - StartPageOffset(offset)
         ELSE page_size - StartPageOffset(offset)
    ELSE IF page_index = EndPageIndex(offset, length)
         THEN EndPageReadTo(offset, length)
         ELSE page_size

LastPageOnly(page_index, end_page_index, page_content, read_length) ==
    page_index = end_page_index

\* _range_page_generator, lines 1162-1166: the loop ends after the last page
\* of the range and after a page that came back shorter than asked
LastPageOrShort(page_index, end_page_index, page_content, read_length) ==
    \/ page_index = end_page_index
    \/ Len(page_content) < read_length

\* the frame of the page loop of read_range(path, offset, length)
RangeFrame(offset, length) ==
    [offset |-> offset, length |-> length,
     page_index |-> StartPageIndex(offset), out |-> <<>>]

ReadRangeBodyChecksLengthLate(offset, length, workers, lookups, wrap) ==
    IF length = 0
    THEN Finish(Returned(<<>>)) /\ ring_log' = lookups
    ELSE IF ~PreferredWorkerOk(workers) \/ length < 0
    THEN /\ Finish(Raised(IF wrap THEN "Exception" ELSE "ValueError"))
         /\ ring_log' = Append(lookups, workers)
    ELSE /\ Goto("range_page", RangeFrame(offset, length))
         /\ ring_log' = Append(lookups, workers)

\* read_range after the open-ended length is resolved, lines 608-619: the ring
\* is asked once (workers) unless the call ends before that
ReadRangeBody(offset, length, workers, lookups, wrap) ==
    IF length = 0
    THEN Finish(Returned(<<>>)) /\ ring_log' = lookups
    ELSE IF length < 0
    THEN Finish(Raised(IF wrap THEN "Exception" ELSE "ValueError")) /\ ring_log' = lookups
    ELSE IF ~PreferredWorkerOk(workers)
    THEN /\ Finish(Raised(IF wrap THEN "Exception" ELSE "ValueError"))
         /\ ring_log' = Append(lookups, workers)
    ELSE /\ Goto("range_page", RangeFrame(offset, length))
         /\ ring_log' = Append(lookups, workers)

\* read_range(file_path, offset, length), lines 597-619, up to its first request
ReadRange(path, offset, length) ==
    /\ CanCall
    /\ Begin([client |-> "sync", op |-> "read_range", path |-> path,
              offset |-> offset, length |-> length])
    /\ log' = <<>>
    /\ UNCHANGED <<page_size, file>>
    /\ \E workers \in GetMultipleWorkers :
        IF ~ValidatePath(path) \/ offset < 0
        THEN Finish(Raised("ValueError")) /\ ring_log' = <<>>
        ELSE IF length = -1
        THEN \* get_file_status: validates again, then asks the ring
             IF ~PreferredWorkerOk(workers)
             THEN Finish(Raised("ValueError")) /\ ring_log' = <<workers>>
             ELSE Goto("range_status", [offset |-> offset]) /\ ring_log' = <<workers>>
        ELSE ReadRangeBody(offset, length, workers, <<>>, FALSE)

FileStatusLengthDropsLast(resp) == resp.body.value[1].mLength - 1

\* get_file_status, lines 290-298: the length field of the status it returns
FileStatusLength(resp) == resp.body.value[1].mLength

\* get_file_status, lines 281-304: TRUE when the response makes it raise
FileStatusFails(resp) ==
    \/ resp.err
    \/ RaiseForStatus(resp.status)
    \/ ~resp.body.json
    \/ Len(resp.body.value) = 0
    \/ ~resp.body.value[1].complete

\* the answer to the metadata lookup of read_range(path, offset, -1), lines 603-619
RangeStatus ==
    /\ pc = "range_status"
    /\ UNCHANGED <<page_size, file, call, now, written>>
    /\ \E resp \in FileStatusResponses, workers \in GetMultipleWorkers :
        /\ log' = Append(log, Exchange(FileStatusRequest(call.path), resp))
        /\ IF FileStatusFails(resp)
           THEN Finish(Raised("Exception")) /\ UNCHANGED ring_log
           ELSE ReadRangeBody(frame.offset,
                              FileStatusLength(resp) - frame.offset,
                              workers, ring_log, FALSE)

\* _read_page, lines 1303-1331: TRUE when the response makes it raise
ReadPageFails(resp) == resp.err \/ RaiseForStatus(resp.status)

\* one turn of the loop of _range_page_generator, lines 1137-1177, and the
\* join and the handler of read_range (and of read) around it
RangePage ==
    /\ pc = "range_page"
    /\ UNCHANGED <<page_size, file, call, ring_log, now, written>>
    /\ LET page_index == frame.page_index
           read_offset == ReadOffset(page_index, frame.offset, frame.length)
           read_length == ReadLength(page_index, frame.offset, frame.length)
           req == PageRequest(page_index, read_offset, read_length)
       IN  \E resp \in PageResponses(req) :
            /\ log' = Append(log, Exchange(req, resp))
            /\ IF ReadPageFails(resp)
               THEN IF page_index = StartPageIndex(frame.offset)
                    THEN Finish(Raised("Exception"))
                    ELSE Finish(Returned(frame.out))
               ELSE LET out == frame.out \o resp.body
                    IN  IF LastPageOrShort(page_index,
                                           EndPageIndex(frame.offset, frame.length),
                                           resp.body, read_length)
                        THEN Finish(Returned(out))
                        ELSE Goto("range_page",
                                  [frame EXCEPT !.page_index = page_index + 1,
                                                !.out = out])

(* --------------------------- blocking write ---------------------------- *)
WritePageRequestChunked(page_index, page_bytes) ==
    [method |-> "POST", url |-> "WRITE_PAGE_URL_FORMAT",
     q |-> [page_index |-> page_index],
     headers |-> {"transfer-type: chunked", "Content-Type: application/octet-stream"},
     data |-> page_bytes]

WritePageRequest(page_index, page_bytes) ==
    [method |-> "POST", url |-> "WRITE_PAGE_URL_FORMAT",
     q |-> [page_index |-> page_index],
     headers |-> {"Content-Type: application/octet-stream"},
     data |-> page_bytes]

\* what the worker may answer to a page POST
WritePageResponses ==
    {TransportFailure} \cup {Response(s, <<>>) : s \in {200, 304, 404, 500}}

\* the worker stores a page it acknowledges with a 2xx status: the file then
\* ends with that page
StorePage(req, resp) ==
    IF ~resp.err /\ 200 <= resp.status /\ resp.status < 300
    THEN PySlice(file, 0, req.q.page_index * page_size) \o req.data
    ELSE file

\* _write_page, lines 1351-1368: TRUE when the response makes it raise
WritePageFails(resp) == resp.err \/ RaiseForStatus(resp.status)

PageBytesToEnd(file_bytes, offset) == PySlice(file_bytes, offset, Len(file_bytes))

\* _all_page_generator_write, lines 1026-1027: the body of the page at offset
PageBytes(file_bytes, offset) ==
    PySlice(file_bytes, offset, Min(offset + page_size, Len(file_bytes)))

WriteLoopEndsPastData(offset, end, file_bytes) == offset + page_size > Len(file_bytes)

\* _all_page_generator_write, lines 1037-1038: the loop ends after the page
\* that reaches the end of the data
WriteLoopEnds(offset, end, file_bytes) == end >= Len(file_bytes)

\* write(file_path, file_bytes), lines 657-661, up to its first request
Write(path, file_bytes) ==
    /\ CanCall
    /\ Begin([client |-> "sync", op |-> "write", path |-> path, file_bytes |-> file_bytes])
    /\ log' = <<>>
    /\ UNCHANGED <<page_size, file>>
    /\ \E workers \in GetMultipleWorkers :
        IF ~ValidatePath(path)
        THEN Finish(Raised("ValueError")) /\ ring_log' = <<>>
        ELSE IF ~PreferredWorkerOk(workers)
        THEN Finish(Raised("ValueError")) /\ ring_log' = <<workers>>
        ELSE Goto("write_page", [page_index |-> 0, offset |-> 0]) /\ ring_log' = <<workers>>

\* one turn of the loop of _all_page_generator_write, lines 1025-1046, and the
\* handler of write around it
WritePage ==
    /\ pc = "write_page"
    /\ UNCHANGED <<page_size, call, ring_log, now>>
    /\ LET file_bytes == call.file_bytes
           end == Min(frame.offset + page_size, Len(file_bytes))
           req == WritePageRequest(frame.page_index, PageBytes(file_bytes, frame.offset))
       IN  \E resp \in WritePageResponses :
            /\ log' = Append(log, Exchange(req, resp))
            /\ file' = StorePage(req, resp)
            /\ IF WritePageFails(resp)
               THEN Finish(Raised("Exception")) /\ written' = <<>>
               ELSE IF WriteLoopEnds(frame.offset, end, file_bytes)
               THEN /\ Finish(Returned(TRUE))
                    /\ written' = IF \A i \in 1..Len(log') : log'[i].resp.status = 200
                                  THEN <<file_bytes>> ELSE <<>>
               ELSE /\ Goto("write_page", [page_index |-> frame.page_index + 1,
                                           offset |-> frame.offset + page_size])
                    /\ written' = <<>>

(* ---------------------------- blocking read ---------------------------- *)
\* read(file_path), lines 454-455, up to the request of get_file_status; every
\* error inside read is re-raised as Exception (lines 477-480)
Read(path) ==
    /\ CanCall
    /\ Begin([client |-> "sync", op |-> "read", path |-> path])
    /\ log' = <<>>
    /\ UNCHANGED <<page_size, file>>
    /\ \E workers \in GetMultipleWorkers :
        IF ~ValidatePath(path)
        THEN Finish(Raised("Exception")) /\ ring_log' = <<>>
        ELSE IF ~PreferredWorkerOk(workers)
        THEN Finish(Raised("Exception")) /\ ring_log' = <<workers>>
        ELSE Goto("read_status", NoFrame) /\ ring_log' = <<workers>>

ReadStatusSkipsFirstByte ==
    /\ pc = "read_status"
    /\ UNCHANGED <<page_size, file, call, now, written>>
    /\ \E resp \in FileStatusResponses, workers \in GetMultipleWorkers :
        /\ log' = Append(log, Exchange(FileStatusRequest(call.path), resp))
        /\ IF FileStatusFails(resp)
           THEN Finish(Raised("Exception")) /\ UNCHANGED ring_log
           ELSE ReadRangeBody(1, FileStatusLength(resp) - 1, workers, ring_log, TRUE)

\* the answer to the metadata lookup of read, lines 455-458, then
\* read_range(file_path, 0, file_status.length) up to its first request
ReadStatus ==
    /\ pc = "read_status"
    /\ UNCHANGED <<page_size, file, call, now, written>>
    /\ \E resp \in FileStatusResponses, workers \in GetMultipleWorkers :
        /\ log' = Append(log, Exchange(FileStatusRequest(call.path), resp))
        /\ IF FileStatusFails(resp)
           THEN Finish(Raised("Exception")) /\ UNCHANGED ring_log
           ELSE ReadRangeBody(0, FileStatusLength(resp), workers, ring_log, TRUE)

(* ---------------------------- blocking load ---------------------------- *)
SleepInterval == 10

\* the timeout argument: <<>> is None, <<t>> is t seconds
Timeouts == {<<>>, <<-5>>, <<0>>, <<5>>, <<10>>, <<20>>}

\* the time one HTTP exchange may take
MaxDelay == 1

\* jobState strings, cut into pieces so that a substring can be looked for:
\* the five names of LoadState, "ERRORED_FAILED" and "UNKNOWN"
LoadStateValues == {"RUNNING", "VERIFYING", "STOPPED", "SUCCEEDED", "FAILED"}

JobStateStrings ==
    {<<v>> : v \in LoadStateValues} \cup {<<"ERRORED_", "FAILED">>, <<"UNKNOWN">>}

LoadRequest(path, opType) ==
    [method |-> "GET", url |-> "LOAD_URL_FORMAT", q |-> [path |-> path, opType |-> opType]]

SubmitResponses ==
    {TransportFailure}
        \cup {Response(s, NotJson) : s \in {304, 404, 500}}
        \cup {Response(200, NotJson), Response(200, JsonBody([other |-> TRUE]))}
        \cup {Response(200, JsonBody([success |-> b])) : b \in BOOLEAN}

ProgressResponses ==
    {TransportFailure}
        \cup {Response(s, NotJson) : s \in {304, 404, 500}}
        \cup {Response(200, NotJson), Response(200, JsonBody([other |-> TRUE]))}
        \cup {Response(200, JsonBody([jobState |-> js])) : js \in JobStateStrings}

\* response.raise_for_status(); json.loads(response.content): TRUE when they raise
JsonFails(resp) == resp.err \/ RaiseForStatus(resp.status) \/ ~resp.body.json

\* "FAILED" in state
ContainsFailed(state) == \E i \in 1..Len(state) : state[i] = "FAILED"

LoadProgressInternalDefaultsRunning(resp) ==
    IF JsonFails(resp) THEN [raises |-> TRUE]
    ELSE IF "jobState" \notin DOMAIN resp.body.value THEN [raises |-> FALSE, state |-> "RUNNING"]
    ELSE LET state == resp.body.value.jobState
         IN  IF ContainsFailed(state) THEN [raises |-> FALSE, state |-> "FAILED"]
             ELSE IF Len(state) = 1 /\ state[1] \in LoadStateValues
             THEN [raises |-> FALSE, state |-> state[1]]
             ELSE [raises |-> TRUE]

LoadProgressInternalUnknownIsRunning(resp) ==
    IF JsonFails(resp) THEN [raises |-> TRUE]
    ELSE IF "jobState" \notin DOMAIN resp.body.value THEN [raises |-> TRUE]
    ELSE LET state == resp.body.value.jobState
         IN  IF ContainsFailed(state) THEN [raises |-> FALSE, state |-> "FAILED"]
             ELSE IF Len(state) = 1 /\ state[1] \in LoadStateValues
             THEN [raises |-> FALSE, state |-> state[1]]
             ELSE [raises |-> FALSE, state |-> "RUNNING"]

\* _load_progress_internal, lines 1271-1286: the state it returns, or that it raises
LoadProgressInternal(resp) ==
    IF JsonFails(resp) THEN [raises |-> TRUE]
    ELSE IF "jobState" \notin DOMAIN resp.body.value THEN [raises |-> TRUE]
    ELSE LET state == resp.body.value.jobState
         IN  IF ContainsFailed(state) THEN [raises |-> FALSE, state |-> "FAILED"]
             ELSE IF Len(state) = 1 /\ state[1] \in LoadStateValues
             THEN [raises |-> FALSE, state |-> state[1]]
             ELSE [raises |-> TRUE]

SubmitNeverRejected(content) == FALSE

\* _load_file, line 1225: not content[ALLUXIO_SUCCESS_IDENTIFIER]
SubmitRejected(content) == ~content.success

AfterPollStoppedGoesOn(state, timeout, stop_time, time) ==
    IF state = "SUCCEEDED" THEN "return True"
    ELSE IF state = "FAILED" THEN "return False"
    ELSE IF timeout = <<>> \/ stop_time - time >= SleepInterval THEN "sleep"
    ELSE "return False"

AfterPollSleepsPastDeadline(state, timeout, stop_time, time) ==
    IF state = "SUCCEEDED" THEN "return True"
    ELSE IF state = "FAILED" THEN "return False"
    ELSE IF state = "STOPPED" THEN "return False"
    ELSE IF timeout = <<>> \/ stop_time - time >= 0 THEN "sleep"
    ELSE "return False"

AfterPollNoneTimesOut(state, timeout, stop_time, time) ==
    IF state = "SUCCEEDED" THEN "return True"
    ELSE IF state = "FAILED" THEN "return False"
    ELSE IF state = "STOPPED" THEN "return False"
    ELSE IF stop_time - time >= SleepInterval THEN "sleep"
    ELSE "return False"

AfterPollAlwaysSleeps(state, timeout, stop_time, time) ==
    IF state = "SUCCEEDED" THEN "return True"
    ELSE IF state = "FAILED" THEN "return False"
    ELSE IF state = "STOPPED" THEN "return False"
    ELSE "sleep"

\* _load_file, lines 1244-1260: what follows a poll that returned state at time
AfterPoll(state, timeout, stop_time, time) ==
    IF state = "SUCCEEDED" THEN "return True"
    ELSE IF state = "FAILED" THEN "return False"
    ELSE IF state = "STOPPED" THEN "return False"
    ELSE IF timeout = <<>> \/ stop_time - time >= SleepInterval THEN "sleep"
    ELSE "return False"

TimedExchange(req, resp, at) == [req |-> req, resp |-> resp, at |-> at]

\* load(path, timeout), lines 323-329, up to the submit request
Load(path, timeout) ==
    /\ CanCall
    /\ Begin([client |-> "sync", op |-> "load", path |-> path, timeout |-> timeout])
    /\ log' = <<>>
    /\ UNCHANGED <<page_size, file>>
    /\ \E workers \in GetMultipleWorkers :
        IF ~ValidatePath(path)
        THEN Finish(Raised("ValueError")) /\ ring_log' = <<>>
        ELSE IF ~PreferredWorkerOk(workers)
        THEN Finish(Raised("ValueError")) /\ ring_log' = <<workers>>
        ELSE Goto("load_submit", NoFrame) /\ ring_log' = <<workers>>

\* _load_file, lines 1210-1239: the submit request and its answer; the clock
\* is first read after it, so time is counted from there
LoadSubmit ==
    /\ pc = "load_submit"
    /\ UNCHANGED <<page_size, file, call, ring_log, now, written>>
    /\ \E resp \in SubmitResponses :
        /\ log' = Append(log, TimedExchange(LoadRequest(call.path, "submit"), resp, now))
        /\ IF JsonFails(resp) \/ "success" \notin DOMAIN resp.body.value
           THEN Finish(Returned(FALSE))
           ELSE IF SubmitRejected(resp.body.value)
           THEN Finish(Returned(FALSE))
           ELSE Goto("load_poll",
                     [stop_time |-> IF call.timeout = <<>> THEN 0
                                    ELSE now + call.timeout[1]])

LoadPollLetsErrorsThrough ==
    /\ pc = "load_poll"
    /\ Len(log) - 1 < MaxPolls
    /\ UNCHANGED <<page_size, file, call, ring_log, written>>
    /\ \E resp \in ProgressResponses, d \in 0..MaxDelay :
        /\ log' = Append(log, TimedExchange(LoadRequest(call.path, "progress"), resp, now))
        /\ now' = now + d
        /\ LET job == LoadProgressInternal(resp)
           IN  IF job.raises
               THEN Finish(Raised("Exception"))
               ELSE LET next == AfterPoll(job.state, call.timeout, frame.stop_time, now')
                    IN  IF next = "return True" THEN Finish(Returned(TRUE))
                        ELSE IF next = "sleep" THEN Goto("load_sleep", frame)
                        ELSE Finish(Returned(FALSE))

\* _load_file, lines 1240-1266: one progress request and what follows it
LoadPoll ==
    /\ pc = "load_poll"
    /\ Len(log) - 1 < MaxPolls
    /\ UNCHANGED <<page_size, file, call, ring_log, written>>
    /\ \E resp \in ProgressResponses, d \in 0..MaxDelay :
        /\ log' = Append(log, TimedExchange(LoadRequest(call.path, "progress"), resp, now))
        /\ now' = now + d
        /\ LET job == LoadProgressInternal(resp)
           IN  IF job.raises
               THEN Finish(Returned(FALSE))
               ELSE LET next == AfterPoll(job.state, call.timeout, frame.stop_time, now')
                    IN  IF next = "return True" THEN Finish(Returned(TRUE))
                        ELSE IF next = "sleep" THEN Goto("load_sleep", frame)
                        ELSE Finish(Returned(FALSE))

LoadSleepHalf ==
    /\ pc = "load_sleep"
    /\ now' = now + SleepInterval \div 2
    /\ Goto("load_poll", frame)
    /\ UNCHANGED <<page_size, file, call, log, ring_log, written>>

\* time.sleep(10), line 1257
LoadSleep ==
    /\ pc = "load_sleep"
    /\ now' = now + SleepInterval
    /\ Goto("load_poll", frame)
    /\ UNCHANGED <<page_size, file, call, log, ring_log, written>>

(* ------------------- blocking single-request operations --------------- *)
\* how a single-request operation runs: its path arguments are validated in
\* order, the ring is asked for the worker of the first one, one request is
\* sent; outcome[resp] is what the operation returns or raises on the response
\* resp, stored[resp] the file the worker holds afterwards.  The model keeps only the bytes of the file: what mkdir, touch, mv,
\* rm and cp change on the worker is outside it.
SingleRequest(c, validated, req, Responses, outcome, stored) ==
    /\ CanCall
    /\ Begin(c)
    /\ UNCHANGED page_size
    /\ IF \E i \in 1..Len(validated) : ~ValidatePath(validated[i])
       THEN /\ Finish(Raised("ValueError"))
            /\ ring_log' = <<>> /\ log' = <<>> /\ file' = file
       ELSE \E workers \in GetMultipleWorkers :
            /\ ring_log' = <<workers>>
            /\ IF ~PreferredWorkerOk(workers)
               THEN Finish(Raised("ValueError")) /\ log' = <<>> /\ file' = file
               ELSE \E resp \in Responses :
                    /\ Finish(outcome[resp])
                    /\ log' = <<Exchange(req, resp)>>
                    /\ file' = stored[resp]

SameFile(Responses) == [resp \in Responses |-> file]

AnyStatus == {200, 201, 304, 404, 500}

\* what the worker may answer to a request whose response body is not read
BareResponses == {TransportFailure} \cup {Response(s, <<>>) : s \in AnyStatus}

\* listdir, lines 219-244
ListdirOutcome(resp) ==
    IF \/ JsonFails(resp)
       \/ \E i \in 1..Len(resp.body.value) : ~resp.body.value[i].complete
    THEN Raised("Exception")
    ELSE Returned(resp.body.value)

Listdir(path) ==
    SingleRequest([client |-> "sync", op |-> "listdir", path |-> path], <<path>>,
                  [method |-> "GET", url |-> "LIST_URL_FORMAT", q |-> [path |-> path]],
                  FileStatusResponses,
                  [resp \in FileStatusResponses |-> ListdirOutcome(resp)],
                  SameFile(FileStatusResponses))

\* get_file_status, lines 281-304
GetFileStatusOutcome(resp) ==
    IF FileStatusFails(resp) THEN Raised("Exception")
    ELSE Returned([length |-> FileStatusLength(resp)])

GetFileStatus(path) ==
    SingleRequest([client |-> "sync", op |-> "get_file_status", path |-> path], <<path>>,
                  FileStatusRequest(path), FileStatusResponses,
                  [resp \in FileStatusResponses |-> GetFileStatusOutcome(resp)],
                  SameFile(FileStatusResponses))

\* submit_load, lines 350-369, and stop_load, lines 388-403
SuccessOutcome(resp) ==
    IF JsonFails(resp) \/ "success" \notin DOMAIN resp.body.value
    THEN Raised("Exception")
    ELSE Returned(resp.body.value.success)

SubmitLoad(path) ==
    SingleRequest([client |-> "sync", op |-> "submit_load", path |-> path], <<path>>,
                  LoadRequest(path, "submit"), SubmitResponses,
                  [resp \in SubmitResponses |-> SuccessOutcome(resp)],
                  SameFile(SubmitResponses))

StopLoad(path) ==
    SingleRequest([client |-> "sync", op |-> "stop_load", path |-> path], <<path>>,
                  LoadRequest(path, "stop"), SubmitResponses,
                  [resp \in SubmitResponses |-> SuccessOutcome(resp)],
                  SameFile(SubmitResponses))

\* load_progress, lines 429-442
LoadProgressOutcome(resp) ==
    LET job == LoadProgressInternal(resp)
    IN  IF job.raises THEN Raised("Exception")
        ELSE Returned(<<job.state, resp.body.value>>)

LoadProgress(path) ==
    SingleRequest([client |-> "sync", op |-> "load_progress", path |-> path], <<path>>,
                  LoadRequest(path, "progress"), ProgressResponses,
                  [resp \in ProgressResponses |-> LoadProgressOutcome(resp)],
                  SameFile(ProgressResponses))

RECURSIVE FileChunkGeneratorDropsTail(_, _, _)
FileChunkGeneratorDropsTail(file_bytes, chunk_size, offset) ==
    IF offset + chunk_size <= Len(file_bytes)
    THEN <<PySlice(file_bytes, offset, offset + chunk_size)>>
             \o FileChunkGeneratorDropsTail(file_bytes, chunk_size, offset + chunk_size)
    ELSE <<>>

\* the pieces of file_bytes that _file_chunk_generator yields, lines 1048-1053
RECURSIVE FileChunkGenerator(_, _, _)
FileChunkGenerator(file_bytes, chunk_size, offset) ==
    IF offset < Len(file_bytes)
    THEN <<PySlice(file_bytes, offset, offset + chunk_size)>>
             \o FileChunkGenerator(file_bytes, chunk_size, offset + chunk_size)
    ELSE <<>>

\* b"".join(chunks), and the writes of the non-empty chunks into a BytesIO
RECURSIVE Join(_)
Join(chunks) ==
    IF chunks = <<>> THEN <<>> ELSE Head(chunks) \o Join(Tail(chunks))

MaxChunkSize == 2

\* what the worker may answer to a GET of file bytes: nothing, or any status
\* with a prefix of the bytes asked for
BytesResponses(asked) ==
    {TransportFailure} \cup {Response(s, b) : s \in AnyStatus, b \in Prefixes(asked)}

\* _all_chunk_generator, lines 567-583, under read_chunked, lines 534-550;
\* response.iter_content cuts the body into pieces of chunk_size bytes
ReadChunkedOutcome(chunk_size, resp) ==
    IF resp.err \/ RaiseForStatus(resp.status) THEN Raised("Exception")
    ELSE Returned(Join(FileChunkGenerator(resp.body, chunk_size, 0)))

ReadChunked(path, chunk_size) ==
    SingleRequest([client |-> "sync", op |-> "read_chunked", path |-> path,
                   chunk_size |-> chunk_size], <<path>>,
                  [method |-> "GET", url |-> "FULL_CHUNK_URL_FORMAT",
                   q |-> [chunk_size |-> chunk_size, page_index |-> 0],
                   headers |-> {"transfer-type: chunked"}],
                  BytesResponses(file),
                  [resp \in BytesResponses(file) |-> ReadChunkedOutcome(chunk_size, resp)],
                  SameFile(BytesResponses(file)))

\* _all_file_range_generator, lines 1182-1197, under read_file_range, lines 494-516
ContentOutcome(resp) ==
    IF resp.err \/ RaiseForStatus(resp.status) THEN Raised("Exception")
    ELSE Returned(resp.body)

ReadFileRange(path, offset, length) ==
    LET Responses == BytesResponses(IF length = -1
                                    THEN PySlice(file, offset, Len(file))
                                    ELSE PySlice(file, offset, offset + length))
    IN  SingleRequest([client |-> "sync", op |-> "read_file_range", path |-> path,
                       offset |-> offset, length |-> length], <<path>>,
                      [method |-> "GET", url |-> "FULL_RANGE_URL_FORMAT",
                       q |-> [offset |-> offset, length |-> length]],
                      Responses,
                      [resp \in Responses |-> ContentOutcome(resp)],
                      SameFile(Responses))

WriteChunkedOutcomeAny2xx(resp) ==
    IF resp.err THEN Raised("Exception")
    ELSE Returned(200 <= resp.status /\ resp.status < 300)

\* _all_chunk_generator_write, lines 1064-1090, under write_chunked, lines 692-714
WriteChunkedOutcome(resp) ==
    IF resp.err THEN Raised("Exception") ELSE Returned(resp.status = 200)

WriteChunked(path, file_bytes, chunk_size) ==
    LET stored == [resp \in BareResponses |->
                      IF ~resp.err /\ 200 <= resp.status /\ resp.status < 300
                      THEN file_bytes ELSE file]
    IN  SingleRequest([client |-> "sync", op |-> "write_chunked", path |-> path,
                       file_bytes |-> file_bytes, chunk_size |-> chunk_size], <<path>>,
                      [method |-> "POST", url |-> "WRITE_CHUNK_URL_FORMAT",
                       q |-> [chunk_size |-> chunk_size],
                       headers |-> {"transfer-type: chunked",
                                    "Content-Type: application/octet-stream"},
                       data |-> FileChunkGenerator(file_bytes, chunk_size, 0)],
                      BareResponses,
                      [resp \in BareResponses |-> WriteChunkedOutcome(resp)],
                      stored)

\* response.raise_for_status(); return 200 <= response.status_code < 300, with
\* requests.RequestException re-raised as Exception: write_page, mkdir, touch,
\* mv, rm and cp
PostOutcome(resp) ==
    IF resp.err \/ RaiseForStatus(resp.status) THEN Raised("Exception")
    ELSE Returned(200 <= resp.status /\ resp.status < 300)

\* write_page, lines 728-750
WritePageOp(path, page_index, page_bytes) ==
    LET req == WritePageRequest(page_index, page_bytes)
    IN  SingleRequest([client |-> "sync", op |-> "write_page", path |-> path,
                       page_index |-> page_index, page_bytes |-> page_bytes], <<path>>,
                      req, BareResponses,
                      [resp \in BareResponses |-> PostOutcome(resp)],
                      [resp \in BareResponses |-> StorePage(req, resp)])

\* mkdir, lines 760-777
Mkdir(path) ==
    SingleRequest([client |-> "sync", op |-> "mkdir", path |-> path], <<path>>,
                  [method |-> "POST", url |-> "MKDIR_URL_FORMAT", q |-> [file_path |-> path]],
                  BareResponses,
                  [resp \in BareResponses |-> PostOutcome(resp)],
                  SameFile(BareResponses))

\* touch, lines 787-804
Touch(path) ==
    SingleRequest([client |-> "sync", op |-> "touch", path |-> path], <<path>>,
                  [method |-> "POST", url |-> "TOUCH_URL_FORMAT", q |-> [file_path |-> path]],
                  BareResponses,
                  [resp \in BareResponses |-> PostOutcome(resp)],
                  SameFile(BareResponses))

\* mv, lines 817-836
Mv(path1, path2) ==
    SingleRequest([client |-> "sync", op |-> "mv", path |-> path1, path2 |-> path2],
                  <<path1, path2>>,
                  [method |-> "POST", url |-> "MV_URL_FORMAT",
                   q |-> [srcPath |-> path1, dstPath |-> path2]],
                  BareResponses,
                  [resp \in BareResponses |-> PostOutcome(resp)],
                  SameFile(BareResponses))

\* rm, lines 847-866
Rm(path) ==
    SingleRequest([client |-> "sync", op |-> "rm", path |-> path], <<path>>,
                  [method |-> "POST", url |-> "RM_URL_FORMAT", q |-> [file_path |-> path]],
                  BareResponses,
                  [resp \in BareResponses |-> PostOutcome(resp)],
                  SameFile(BareResponses))

\* cp, lines 878-898
Cp(path1, path2) ==
    SingleRequest([client |-> "sync", op |-> "cp", path |-> path1, path2 |-> path2],
                  <<path1>>,
                  [method |-> "POST", url |-> "CP_URL_FORMAT",
                   q |-> [srcPath |-> path1, dstPath |-> path2]],
                  BareResponses,
                  [resp \in BareResponses |-> PostOutcome(resp)],
                  SameFile(BareResponses))

\* return b"".join(response.iter_content()), with requests.RequestException
\* re-raised as Exception: tail and head
IterContentOutcome(resp) ==
    IF resp.err THEN Raised("Exception")
    ELSE Returned(Join(FileChunkGenerator(resp.body, 1, 0)))

\* tail, lines 909-926
TailOp(path) ==
    SingleRequest([client |-> "sync", op |-> "tail", path |-> path], <<path>>,
                  [method |-> "GET", url |-> "TAIL_URL_FORMAT", q |-> [file_path |-> path]],
                  BytesResponses(file),
                  [resp \in BytesResponses(file) |-> IterContentOutcome(resp)],
                  SameFile(BytesResponses(file)))

\* head, lines 937-954
HeadOp(path) ==
    SingleRequest([client |-> "sync", op |-> "head", path |-> path], <<path>>,
                  [method |-> "GET", url |-> "HEAD_URL_FORMAT", q |-> [file_path |-> path]],
                  BytesResponses(file),
                  [resp \in BytesResponses(file) |-> IterContentOutcome(resp)],
                  SameFile(BytesResponses(file)))

(* --------------------- suspend-capable read_range ---------------------- *)
\* AlluxioAsyncFileSystem.read_range, lines 1657-1669, with
\* _range_page_generator, lines 1710-1761, up to the first awaited request.
\* _read_page is a coroutine function: calling it sends nothing, and
\* len(page_content) of the coroutine object raises TypeError, which the loop
\* reaches unless the first page is also the last one.
AsyncReadRange(path, offset, length) ==
    /\ CanCall
    /\ Begin([client |-> "async", op |-> "read_range", path |-> path,
              offset |-> offset, length |-> length])
    /\ log' = <<>>
    /\ UNCHANGED <<page_size, file>>
    /\ \E workers \in GetMultipleWorkers :
        IF ~ValidatePath(path) \/ offset < 0 \/ (length <= 0 /\ length # -1)
        THEN Finish(Raised("ValueError")) /\ ring_log' = <<>>
        ELSE IF ~PreferredWorkerOk(workers)
        THEN Finish(Raised("ValueError")) /\ ring_log' = <<workers>>
        ELSE IF length # -1 /\ StartPageIndex(offset) = EndPageIndex(offset, length)
        THEN /\ Goto("async_gather",
                      [requests |-> <<PageRequest(StartPageIndex(offset),
                                                  StartPageOffset(offset),
                                                  EndPageReadTo(offset, length)
                                                      - StartPageOffset(offset))>>])
             /\ ring_log' = <<workers>>
        ELSE Finish(Raised("TypeError")) /\ ring_log' = <<workers>>

\* what the worker may answer to a page GET of the suspend-capable client
AsyncPageResponses(req) ==
    {TransportFailure}
        \cup {Response(s, <<>>) : s \in {304, 404, 500}}
        \cup {Response(200, b) : b \in Prefixes(PageWindow(req))}

\* b"".join(await page_contents), line 1669: the one page request is sent by
\* _request, lines 1893-1906, which returns the body whatever the status
AsyncGather ==
    /\ pc = "async_gather"
    /\ UNCHANGED <<page_size, file, call, ring_log, now, written>>
    /\ LET req == frame.requests[1]
       IN  \E resp \in AsyncPageResponses(req) :
            /\ log' = Append(log, Exchange(req, resp))
            /\ IF resp.err
               THEN Finish(Raised("ClientError"))
               ELSE Finish(Returned(resp.body))

(* ------------------------- suspend-capable load ------------------------ *)
\* what awaiting AlluxioAsyncFileSystem.load gives: it returns the coroutine
\* object of _load_file, which line 1641 creates without awaiting it
LoadFileCoroutine == [kind |-> "return", coroutine |-> "_load_file"]

\* the requests of the suspend-capable load: the path is part of the URL
AsyncLoadRequest(path, opType) ==
    [method |-> "GET",
     url |-> IF opType = "submit" THEN "LOAD_SUBMIT_URL_FORMAT"
                                  ELSE "LOAD_PROGRESS_URL_FORMAT",
     q |-> [path |-> path, opType |-> opType]]

\* AlluxioAsyncFileSystem.load, lines 1639-1641: no request is sent
AsyncLoad(path, timeout) ==
    /\ CanCall
    /\ Begin([client |-> "async", op |-> "load", path |-> path, timeout |-> timeout])
    /\ log' = <<>>
    /\ UNCHANGED <<page_size, file>>
    /\ \E workers \in GetMultipleWorkers :
        IF ~ValidatePath(path)
        THEN Finish(Raised("ValueError")) /\ ring_log' = <<>>
        ELSE IF ~PreferredWorkerOk(workers)
        THEN Finish(Raised("ValueError")) /\ ring_log' = <<workers>>
        ELSE Finish(LoadFileCoroutine) /\ ring_log' = <<workers>>

\* the caller awaits the coroutine that load returned: _load_file starts
AwaitLoadFile ==
    /\ pc = "done"
    /\ call.client = "async"
    /\ call.op = "load"
    /\ result = LoadFileCoroutine
    /\ call' = [call EXCEPT !.op = "_load_file"]
    /\ Goto("async_load_submit", NoFrame)
    /\ UNCHANGED <<page_size, file, log, ring_log, now, written>>

\* AlluxioAsyncFileSystem._load_file, lines 1764-1784: the submit request;
\* _request checks no status and nothing catches what is raised here
AsyncLoadSubmit ==
    /\ pc = "async_load_submit"
    /\ UNCHANGED <<page_size, file, call, ring_log, now, written>>
    /\ \E resp \in SubmitResponses :
        /\ log' = Append(log, TimedExchange(AsyncLoadRequest(call.path, "submit"), resp, now))
        /\ IF resp.err THEN Finish(Raised("ClientError"))
           ELSE IF ~resp.body.json THEN Finish(Raised("JSONDecodeError"))
           ELSE IF "success" \notin DOMAIN resp.body.value THEN Finish(Raised("KeyError"))
           ELSE IF SubmitRejected(resp.body.value) THEN Finish(Returned(FALSE))
           ELSE Goto("async_load_poll",
                     [stop_time |-> IF call.timeout = <<>> THEN 0
                                    ELSE now + call.timeout[1]])

\* AlluxioAsyncFileSystem._load_progress_internal, lines 1805-1812: the state
\* it returns, or the error it raises; LoadState(value) takes exact names only
AsyncLoadProgressInternal(resp) ==
    IF resp.err THEN [raises |-> TRUE, exc |-> "ClientError"]
    ELSE IF ~resp.body.json THEN [raises |-> TRUE, exc |-> "JSONDecodeError"]
    ELSE IF "jobState" \notin DOMAIN resp.body.value THEN [raises |-> TRUE, exc |-> "KeyError"]
    ELSE LET state == resp.body.value.jobState
         IN  IF Len(state) = 1 /\ state[1] \in LoadStateValues
             THEN [raises |-> FALSE, state |-> state[1]]
             ELSE [raises |-> TRUE, exc |-> "ValueError"]

\* AlluxioAsyncFileSystem._load_file, lines 1785-1803: one progress request
\* and what follows it; asyncio.sleep(10) at line 1800 is not awaited, so no
\* time passes before the next poll
AsyncLoadPoll ==
    /\ pc = "async_load_poll"
    /\ Len(log) - 1 < MaxPolls
    /\ UNCHANGED <<page_size, file, call, ring_log, written>>
    /\ \E resp \in ProgressResponses, d \in 0..MaxDelay :
        /\ log' = Append(log, TimedExchange(AsyncLoadRequest(call.path, "progress"), resp, now))
        /\ now' = now + d
        /\ LET job == AsyncLoadProgressInternal(resp)
           IN  IF job.raises
               THEN Finish(Raised(job.exc))
               ELSE LET next == AfterPoll(job.state, call.timeout, frame.stop_time, now')
                    IN  IF next = "return True" THEN Finish(Returned(TRUE))
                        ELSE IF next = "sleep" THEN Goto("async_load_poll", frame)
                        ELSE Finish(Returned(FALSE))

(* ---------------------- suspend-capable write_page --------------------- *)
\* AlluxioAsyncFileSystem.write_page, line 1700 after _request, lines
\* 1893-1906: the status is compared, nothing is raised for it
AsyncPostOutcome(resp) ==
    IF resp.err THEN Raised("ClientError")
    ELSE Returned(200 <= resp.status /\ resp.status < 300)

\* AlluxioAsyncFileSystem.write_page, lines 1685-1700
AsyncWritePage(path, page_index, page_bytes) ==
    LET req == WritePageRequest(page_index, page_bytes)
    IN  SingleRequest([client |-> "async", op |-> "write_page", path |-> path,
                       page_index |-> page_index, page_bytes |-> page_bytes], <<path>>,
                      req, BareResponses,
                      [resp \in BareResponses |-> AsyncPostOutcome(resp)],
                      [resp \in BareResponses |-> StorePage(req, resp)])

(* ------------- blocking read_range with the batch fetcher -------------- *)
\* read_range of a client built with the alluxiocommon extension enabled
\* (self.data_manager set, lines 162-171); such a call has
\* call.client = "alluxiocommon".
\* _range_page_generator_alluxiocommon, lines 1095-1123: the requests it
\* lists for the bytes start .. offset+length-1, in the order listed
RECURSIVE ReadUrlsWholePages(_, _, _)
ReadUrlsWholePages(start, offset, length) ==
    IF start < offset + length
    THEN LET page_index == start \div page_size
             inpage_off == start % page_size
             inpage_read_len == page_size - inpage_off
             page_url == IF inpage_off = 0 /\ inpage_read_len = page_size
                         THEN FullPageRequest(page_index)
                         ELSE PageRequest(page_index, inpage_off, inpage_read_len)
         IN  <<page_url>> \o ReadUrlsWholePages(start + inpage_read_len, offset, length)
    ELSE <<>>

RECURSIVE ReadUrls(_, _, _)
ReadUrls(start, offset, length) ==
    IF start < offset + length
    THEN LET page_index == start \div page_size
             inpage_off == start % page_size
             inpage_read_len == Min(page_size - inpage_off, offset + length - start)
             page_url == IF inpage_off = 0 /\ inpage_read_len = page_size
                         THEN FullPageRequest(page_index)
                         ELSE PageRequest(page_index, inpage_off, inpage_read_len)
         IN  <<page_url>> \o ReadUrls(start + inpage_read_len, offset, length)
    ELSE <<>>

\* read_range after the open-ended length is resolved, lines 608-631, when
\* data_manager is set
BatchedReadRangeBody(offset, length, workers, lookups) ==
    IF length = 0
    THEN Finish(Returned(<<>>)) /\ ring_log' = lookups
    ELSE IF length < 0
    THEN Finish(Raised("ValueError")) /\ ring_log' = lookups
    ELSE IF ~PreferredWorkerOk(workers)
    THEN Finish(Raised("ValueError")) /\ ring_log' = Append(lookups, workers)
    ELSE /\ Goto("batch_fetch", [read_urls |-> ReadUrls(offset, offset, length)])
         /\ ring_log' = Append(lookups, workers)

\* read_range(file_path, offset, length), lines 597-619, up to its first request
BatchedReadRange(path, offset, length) ==
    /\ CanCall
    /\ Begin([client |-> "alluxiocommon", op |-> "read_range", path |-> path,
              offset |-> offset, length |-> length])
    /\ log' = <<>>
    /\ UNCHANGED <<page_size, file>>
    /\ \E workers \in GetMultipleWorkers :
        IF ~ValidatePath(path) \/ offset < 0
        THEN Finish(Raised("ValueError")) /\ ring_log' = <<>>
        ELSE IF length = -1
        THEN IF ~PreferredWorkerOk(workers)
             THEN Finish(Raised("ValueError")) /\ ring_log' = <<workers>>
             ELSE Goto("batch_status", [offset |-> offset]) /\ ring_log' = <<workers>>
        ELSE BatchedReadRangeBody(offset, length, workers, <<>>)

\* the answer to the metadata lookup of read_range(path, offset, -1), lines 603-606
BatchedRangeStatus ==
    /\ pc = "batch_status"
    /\ UNCHANGED <<page_size, file, call, now, written>>
    /\ \E resp \in FileStatusResponses, workers \in GetMultipleWorkers :
        /\ log' = Append(log, Exchange(FileStatusRequest(call.path), resp))
        /\ IF FileStatusFails(resp)
           THEN Finish(Raised("Exception")) /\ UNCHANGED ring_log
           ELSE BatchedReadRangeBody(frame.offset,
                                     FileStatusLength(resp) - frame.offset,
                                     workers, ring_log)

\* data_manager.make_multi_http_req(read_urls), line 1124: the fetcher sends
\* the listed requests and returns the bodies joined in the listed order, or
\* raises when one of them (failing) gets no answer; read_range re-raises
\* that as Exception (lines 641-646)
MakeMultiHttpReq ==
    /\ pc = "batch_fetch"
    /\ UNCHANGED <<page_size, file, call, ring_log, now, written>>
    /\ LET read_urls == frame.read_urls
       IN  \E failing \in 0..Len(read_urls) :
            LET answers == [i \in 1..Len(read_urls) |->
                               IF i = failing THEN TransportFailure
                               ELSE FaithfulPageResponse(read_urls[i])]
            IN  /\ log' = log \o [i \in 1..Len(read_urls) |->
                                      Exchange(read_urls[i], answers[i])]
                /\ IF failing = 0
                   THEN Finish(Returned(Join([i \in 1..Len(read_urls) |-> answers[i].body])))
                   ELSE Finish(Raised("Exception"))

(* ---------------------- read_range without a length ------------------- *)
\* read_range(file_path, offset, None) of the blocking client, lines 598-606:
\* "length is None or length == -1" sends None the way of -1, to the
\* metadata lookup of get_file_status
ReadRangeNoLength(path, offset) ==
    /\ CanCall
    /\ Begin([client |-> "sync", op |-> "read_range_length_None", path |-> path,
              offset |-> offset])
    /\ log' = <<>>
    /\ UNCHANGED <<page_size, file>>
    /\ \E workers \in GetMultipleWorkers :
        IF ~ValidatePath(path) \/ offset < 0
        THEN Finish(Raised("ValueError")) /\ ring_log' = <<>>
        ELSE IF ~PreferredWorkerOk(workers)
        THEN Finish(Raised("ValueError")) /\ ring_log' = <<workers>>
        ELSE Goto("range_status", [offset |-> offset]) /\ ring_log' = <<workers>>

\* AlluxioAsyncFileSystem.read_range(file_path, offset, None), lines 1657-1662:
\* None is not an int, so the length check raises
AsyncReadRangeNoLength(path, offset) ==
    /\ CanCall
    /\ Begin([client |-> "async", op |-> "read_range_length_None", path |-> path,
              offset |-> offset])
    /\ log' = <<>>
    /\ ring_log' = <<>>
    /\ UNCHANGED <<page_size, file>>
    /\ Finish(Raised("ValueError"))

(* ----------------- blocking writes with the batch fetcher -------------- *)
\* _all_page_generator_alluxiocommon, line 960
fetching_pages_num_each_round == 4

\* _all_page_generator_alluxiocommon, lines 964-973: the requests of the
\* round that starts at page_index
RoundReadUrls(page_index) ==
    [i \in 1..fetching_pages_num_each_round |-> FullPageRequest(page_index + i - 1)]

\* write(file_path, file_bytes) when data_manager is set, lines 657-668, up
\* to the first round of _all_page_generator_alluxiocommon
BatchedWrite(path, file_bytes) ==
    /\ CanCall
    /\ Begin([client |-> "alluxiocommon", op |-> "write", path |-> path,
              file_bytes |-> file_bytes])
    /\ log' = <<>>
    /\ UNCHANGED <<page_size, file>>
    /\ \E workers \in GetMultipleWorkers :
        IF ~ValidatePath(path)
        THEN Finish(Raised("ValueError")) /\ ring_log' = <<>>
        ELSE IF ~PreferredWorkerOk(workers)
        THEN Finish(Raised("ValueError")) /\ ring_log' = <<workers>>
        ELSE Goto("batch_write", [page_index |-> 0, out |-> <<>>]) /\ ring_log' = <<workers>>

\* one round of _all_page_generator_alluxiocommon, lines 961-988, under the
\* b"".join and the handler of write, lines 663-680: the fetcher gets
\* fetching_pages_num_each_round full pages, and a round that comes back
\* short is the last one
BatchedWriteRound ==
    /\ pc = "batch_write"
    /\ UNCHANGED <<page_size, file, call, ring_log, now, written>>
    /\ LET read_urls == RoundReadUrls(frame.page_index)
       IN  \E failing \in 0..Len(read_urls) :
            LET answers == [i \in 1..Len(read_urls) |->
                               IF i = failing THEN TransportFailure
                               ELSE FaithfulPageResponse(read_urls[i])]
                pages_content == Join([i \in 1..Len(read_urls) |-> answers[i].body])
            IN  /\ log' = log \o [i \in 1..Len(read_urls) |->
                                      Exchange(read_urls[i], answers[i])]
                /\ IF failing # 0
                   THEN Finish(Raised("Exception"))
                   ELSE IF Len(pages_content) < fetching_pages_num_each_round * page_size
                   THEN Finish(Returned(frame.out \o pages_content))
                   ELSE Goto("batch_write",
                             [page_index |-> frame.page_index + fetching_pages_num_each_round,
                              out |-> frame.out \o pages_content])

\* what write_chunked returns when data_manager is set, lines 697-700: the
\* generator object of _all_page_generator_alluxiocommon, which nothing iterates
AllPageGenerator == [kind |-> "return", generator |-> "_all_page_generator_alluxiocommon"]

\* write_chunked(file_path, file_bytes, chunk_size) when data_manager is
\* set, lines 692-700: no request is sent
BatchedWriteChunked(path, file_bytes, chunk_size) ==
    /\ CanCall
    /\ Begin([client |-> "alluxiocommon", op |-> "write_chunked", path |-> path,
              file_bytes |-> file_bytes, chunk_size |-> chunk_size])
    /\ log' = <<>>
    /\ UNCHANGED <<page_size, file>>
    /\ \E workers \in GetMultipleWorkers :
        IF ~ValidatePath(path)
        THEN Finish(Raised("ValueError")) /\ ring_log' = <<>>
        ELSE IF ~PreferredWorkerOk(workers)
        THEN Finish(Raised("ValueError")) /\ ring_log' = <<workers>>
        ELSE Finish(AllPageGenerator) /\ ring_log' = <<workers>>

(* ------------------ the session of the suspend-capable client --------- *)
SetSessionAlwaysCreates(s) == [current |-> s.created + 1, created |-> s.created + 1]

\* _set_session, lines 1484-1490, has no await in it: the test and the
\* assignment run without another coroutine in between
SetSession(s) ==
    IF s.current = 0
    THEN [current |-> s.created + 1, created |-> s.created + 1]
    ELSE s

\* the session property, lines 1492-1496
SessionProperty(s) ==
    IF s.current = 0 THEN Raised("RuntimeError") ELSE Returned(s.current)

\* n coroutines of _request are put on the event loop together
AsyncRequests(n) ==
    /\ CanCall
    /\ Begin([client |-> "async", op |-> "_request", n |-> n])
    /\ log' = <<>>
    /\ ring_log' = <<>>
    /\ UNCHANGED <<page_size, file>>
    /\ Goto("requests", [tasks |-> [i \in 1..n |-> "start"]])

\* _request of coroutine i up to its first suspension, lines 1893-1902:
\* await self._set_session(), then self.session.request(...); the request is
\* logged with the session it goes through
RequestBegin(i) ==
    /\ pc = "requests"
    /\ i \in DOMAIN frame.tasks
    /\ frame.tasks[i] = "start"
    /\ session' = SetSession(session)
    /\ UNCHANGED <<page_size, file, call, ring_log, now, written, hash_provider, pc>>
    /\ LET got == SessionProperty(session')
       IN  IF got.kind = "raise"
           THEN /\ frame' = [frame EXCEPT !.tasks[i] = "done"]
                /\ result' = got
                /\ log' = log
           ELSE /\ frame' = [frame EXCEPT !.tasks[i] = "awaiting"]
                /\ result' = result
                /\ log' = Append(log, [req |-> [method |-> "GET", session |-> got.value],
                                       task |-> i])

\* _request of coroutine i from the response on, lines 1902-1906; the call
\* is over when the last coroutine is
RequestEnd(i) ==
    /\ pc = "requests"
    /\ i \in DOMAIN frame.tasks
    /\ frame.tasks[i] = "awaiting"
    /\ UNCHANGED <<page_size, file, call, log, ring_log, now, written, hash_provider, session>>
    /\ LET tasks == [frame.tasks EXCEPT ![i] = "done"]
       IN  IF \A j \in DOMAIN tasks : tasks[j] = "done"
           THEN /\ pc' = "done"
                /\ frame' = NoFrame
                /\ result' = IF result.kind = "raise" THEN result ELSE Returned(Len(tasks))
           ELSE /\ pc' = pc
                /\ frame' = [frame EXCEPT !.tasks = tasks]
                /\ result' = result

\* reading the session property from outside a request
ReadSession ==
    /\ CanCall
    /\ Begin([client |-> "async", op |-> "session"])
    /\ log' = <<>>
    /\ ring_log' = <<>>
    /\ UNCHANGED <<page_size, file>>
    /\ Finish(SessionProperty(session))

(* ------------------- routing while the ring is refreshed --------------- *)
\* _get_preferred_worker_address(full_ufs_path), line 1385: the call of
\* get_multiple_workers starts and takes the ring it will walk; live collects
\* the complete rings that are in use while the call runs
PreferredWorkerBegin(path) ==
    /\ CanCall
    /\ Begin([client |-> "sync", op |-> "_get_preferred_worker_address", path |-> path])
    /\ log' = <<>>
    /\ ring_log' = <<>>
    /\ UNCHANGED <<page_size, file>>
    /\ Goto("resolve", [snapshot |-> WorkerRing, live |-> {hash_provider.ring}])

\* _get_preferred_worker_address, lines 1385-1392: get_multiple_workers
\* returns from the ring it took, and anything but one worker is a ValueError
PreferredWorkerEnd ==
    /\ pc = "resolve"
    /\ UNCHANGED <<page_size, file, call, log, now, written, hash_provider, frame, session>>
    /\ LET workers == WorkersOfRing(frame.snapshot, call.path)
       IN  /\ ring_log' = <<workers>>
           /\ pc' = "done"
           /\ result' = IF PreferredWorkerOk(workers)
                        THEN Returned(workers[1])
                        ELSE Raised("ValueError")

\* a membership refresh starts: it builds the ring of the new membership
\* aside from the ring in use
RefreshBegin(members) ==
    /\ ~hash_provider.refreshing
    /\ hash_provider' = [hash_provider EXCEPT !.target = RingOf(members),
                                               !.built = 0,
                                               !.refreshing = TRUE]
    /\ UNCHANGED <<page_size, file, call, pc, frame, result, log, ring_log, now, written,
                   session>>

\* the refresh fills the next position of the ring under construction
RefreshAddNode ==
    /\ hash_provider.refreshing
    /\ hash_provider.built < Len(hash_provider.target)
    /\ hash_provider' = [hash_provider EXCEPT !.built = @ + 1]
    /\ UNCHANGED <<page_size, file, call, pc, frame, result, log, ring_log, now, written,
                   session>>

\* the refresh installs the finished ring in one step
RefreshSwap ==
    /\ hash_provider.refreshing
    /\ hash_provider.built = Len(hash_provider.target)
    /\ hash_provider' = [ring |-> hash_provider.target, target |-> <<>>,
                         built |-> 0, refreshing |-> FALSE]
    /\ frame' = IF pc = "resolve"
                THEN [frame EXCEPT !.live = @ \cup {hash_provider.target}]
                ELSE frame
    /\ UNCHANGED <<page_size, file, call, pc, result, log, ring_log, now, written, session>>

(* --------------------------- specification ----------------------------- *)
Init ==
    /\ page_size \in 1..MaxPageSize
    /\ file \in Contents
    /\ call = NoCall
    /\ pc = "idle"
    /\ frame = NoFrame
    /\ result = NoResult
    /\ log = <<>>
    /\ ring_log = <<>>
    /\ now = 0
    /\ written = <<>>
    /\ hash_provider = NewHashProvider
    /\ session = NoSession

Next ==
    \/ CanCall /\ \E path \in PathSamples, offset \in -1..MaxOffset, length \in -2..MaxLength :
           ReadRange(path, offset, length)
    \/ RangeStatus
    \/ RangePage
    \/ CanCall /\ \E path \in PathSamples, file_bytes \in Contents : Write(path, file_bytes)
    \/ WritePage
    \/ CanCall /\ \E path \in PathSamples : Read(path)
    \/ ReadStatus
    \/ CanCall /\ \E path \in PathSamples : Listdir(path)
    \/ CanCall /\ \E path \in PathSamples : GetFileStatus(path)
    \/ CanCall /\ \E path \in PathSamples : SubmitLoad(path)
    \/ CanCall /\ \E path \in PathSamples : StopLoad(path)
    \/ CanCall /\ \E path \in PathSamples : LoadProgress(path)
    \/ CanCall /\ \E path \in PathSamples, chunk_size \in 1..MaxChunkSize : ReadChunked(path, chunk_size)
    \/ CanCall /\ \E path \in PathSamples, offset \in 0..MaxOffset, length \in -1..MaxLength :
           ReadFileRange(path, offset, length)
    \/ CanCall /\ \E path \in PathSamples, file_bytes \in Contents, chunk_size \in 1..MaxChunkSize :
           WriteChunked(path, file_bytes, chunk_size)
    \/ CanCall /\ \E path \in PathSamples, page_index \in 0..MaxLen, page_bytes \in Contents :
           /\ Len(page_bytes) <= page_size
           /\ page_index * page_size + Len(page_bytes) <= MaxLen
           /\ WritePageOp(path, page_index, page_bytes)
    \/ CanCall /\ \E path \in PathSamples : Mkdir(path)
    \/ CanCall /\ \E path \in PathSamples : Touch(path)
    \/ CanCall /\ \E path1 \in PathSamples, path2 \in PathSamples : Mv(path1, path2)
    \/ CanCall /\ \E path \in PathSamples : Rm(path)
    \/ CanCall /\ \E path1 \in PathSamples, path2 \in PathSamples : Cp(path1, path2)
    \/ CanCall /\ \E path \in PathSamples : TailOp(path)
    \/ CanCall /\ \E path \in PathSamples : HeadOp(path)
    \/ CanCall /\ \E path \in PathSamples, offset \in -1..MaxOffset, length \in -2..MaxLength :
           AsyncReadRange(path, offset, length)
    \/ AsyncGather
    \/ ReturnToCaller

Spec == Init /\ [][Next]_vars

\* the load flow on its own: it neither reads nor changes the file
LoadInit ==
    /\ page_size \in 1..MaxPageSize
    /\ file = <<>>
    /\ call = NoCall
    /\ pc = "idle"
    /\ frame = NoFrame
    /\ result = NoResult
    /\ log = <<>>
    /\ ring_log = <<>>
    /\ now = 0
    /\ written = <<>>
    /\ hash_provider = NewHashProvider
    /\ session = NoSession

LoadNext ==
    \/ CanCall /\ \E path \in PathSamples, timeout \in Timeouts : Load(path, timeout)
    \/ LoadSubmit
    \/ LoadPoll
    \/ LoadSleep
    \/ CanCall /\ \E path \in PathSamples : LoadProgress(path)
    \/ CanCall /\ \E path \in PathSamples, timeout \in Timeouts : AsyncLoad(path, timeout)
    \/ AwaitLoadFile
    \/ AsyncLoadSubmit
    \/ AsyncLoadPoll
    \/ ReturnToCaller

LoadSpec == LoadInit /\ [][LoadNext]_vars

\* the load flow against a job that ends: the poll number MaxPolls, at the
\* latest, is answered with something else than RUNNING or VERIFYING
LoadPollJobEnds ==
    /\ LoadPoll
    /\ Len(log) = MaxPolls =>
        LET resp == log'[Len(log')].resp
        IN  \/ resp.err
            \/ ~resp.body.json
            \/ "jobState" \notin DOMAIN resp.body.value
            \/ resp.body.value.jobState \notin {<<"RUNNING">>, <<"VERIFYING">>}

LoadLiveNext ==
    \/ CanCall /\ \E path \in PathSamples, timeout \in Timeouts : Load(path, timeout)
    \/ LoadSubmit
    \/ LoadPollJobEnds
    \/ LoadSleep
    \/ ReturnToCaller

\* the blocking client runs each call to its end on the calling thread, and
\* the worker answers every request
LoadLiveSpec ==
    /\ LoadInit
    /\ [][LoadLiveNext]_vars
    /\ WF_vars(LoadSubmit)
    /\ WF_vars(LoadPollJobEnds)
    /\ WF_vars(LoadSleep)

\* the chunked transfers of the blocking client
ChunkNext ==
    \/ CanCall /\ \E path \in PathSamples, chunk_size \in 1..MaxChunkSize : ReadChunked(path, chunk_size)
    \/ CanCall /\ \E path \in PathSamples, file_bytes \in Contents, chunk_size \in 1..MaxChunkSize :
           WriteChunked(path, file_bytes, chunk_size)
    \/ ReturnToCaller

ChunkSpec == Init /\ [][ChunkNext]_vars

\* write_page of the two clients, starting from an empty file
PageWriteNext ==
    \/ CanCall /\ \E path \in PathSamples, page_index \in 0..MaxLen, page_bytes \in Contents :
           /\ Len(page_bytes) <= page_size
           /\ page_index * page_size + Len(page_bytes) <= MaxLen
           /\ WritePageOp(path, page_index, page_bytes)
    \/ CanCall /\ \E path \in PathSamples, page_index \in 0..MaxLen, page_bytes \in Contents :
           /\ Len(page_bytes) <= page_size
           /\ page_index * page_size + Len(page_bytes) <= MaxLen
           /\ AsyncWritePage(path, page_index, page_bytes)
    \/ ReturnToCaller

PageWriteSpec == LoadInit /\ [][PageWriteNext]_vars

\* read_range on its three paths: the sequential one, the one through the
\* batch fetcher, and the suspend-capable client
RangeNext ==
    \/ CanCall /\ \E path \in PathSamples, offset \in -1..MaxOffset, length \in -2..MaxLength :
           ReadRange(path, offset, length)
    \/ RangeStatus
    \/ RangePage
    \/ CanCall /\ \E path \in PathSamples, offset \in -1..MaxOffset, length \in -2..MaxLength :
           BatchedReadRange(path, offset, length)
    \/ BatchedRangeStatus
    \/ MakeMultiHttpReq
    \/ CanCall /\ \E path \in PathSamples, offset \in -1..MaxOffset, length \in -2..MaxLength :
           AsyncReadRange(path, offset, length)
    \/ AsyncGather
    \/ CanCall /\ \E path \in PathSamples, offset \in -1..MaxOffset : ReadRangeNoLength(path, offset)
    \/ CanCall /\ \E path \in PathSamples, offset \in -1..MaxOffset : AsyncReadRangeNoLength(path, offset)
    \/ ReturnToCaller

RangeSpec == Init /\ [][RangeNext]_vars

\* requests of the suspend-capable client sharing the event loop
SessionNext ==
    \/ CanCall /\ \E n \in 1..MaxTasks : AsyncRequests(n)
    \/ \E i \in 1..MaxTasks : RequestBegin(i)
    \/ \E i \in 1..MaxTasks : RequestEnd(i)
    \/ ReadSession
    \/ ReturnToCaller

SessionSpec == LoadInit /\ [][SessionNext]_vars

\* the blocking load with a finite timeout
LoadTimedNext ==
    \/ CanCall /\ \E path \in PathSamples, timeout \in Timeouts \ {<<>>} : Load(path, timeout)
    \/ LoadSubmit
    \/ LoadPoll
    \/ LoadSleep
    \/ ReturnToCaller

\* the blocking client runs each call to its end on the calling thread, and
\* the worker answers every request
LoadTimedSpec ==
    /\ LoadInit
    /\ [][LoadTimedNext]_vars
    /\ WF_vars(LoadSubmit)
    /\ WF_vars(LoadPoll)
    /\ WF_vars(LoadSleep)

\* the paged write of the blocking client on its own
WriteLoopNext ==
    \/ CanCall /\ \E path \in PathSamples, file_bytes \in Contents : Write(path, file_bytes)
    \/ WritePage
    \/ ReturnToCaller

WriteLoopSpec == LoadInit /\ [][WriteLoopNext]_vars

\* write and write_chunked, without and with the batch fetcher
WriteNext ==
    \/ CanCall /\ \E path \in PathSamples, file_bytes \in Contents : Write(path, file_bytes)
    \/ WritePage
    \/ CanCall /\ \E path \in PathSamples, file_bytes \in Contents, chunk_size \in 1..MaxChunkSize :
           WriteChunked(path, file_bytes, chunk_size)
    \/ CanCall /\ \E path \in PathSamples, file_bytes \in Contents : BatchedWrite(path, file_bytes)
    \/ BatchedWriteRound
    \/ CanCall /\ \E path \in PathSamples, file_bytes \in Contents, chunk_size \in 1..MaxChunkSize :
           BatchedWriteChunked(path, file_bytes, chunk_size)
    \/ ReturnToCaller

WriteSpec == Init /\ [][WriteNext]_vars

\* worker lookups running beside membership refreshes
RingNext ==
    \/ CanCall /\ \E path \in PathSamples : PreferredWorkerBegin(path)
    \/ PreferredWorkerEnd
    \/ \E members \in Memberships : RefreshBegin(members)
    \/ RefreshAddNode
    \/ RefreshSwap
    \/ ReturnToCaller

RingSpec == LoadInit /\ [][RingNext]_vars

(* ------------------------------ properties ----------------------------- *)
SyncDone(op) == pc = "done" /\ call.client = "sync" /\ call.op = op

\* the ring gave exactly one worker at every lookup of the operation
OneWorkerEachLookup == \A i \in 1..Len(ring_log) : Len(ring_log[i]) = 1

IsPageExchange(e) == e.req.url = "PAGE_URL_FORMAT"

\* the bodies of the first n responses, concatenated in the order received
BodiesUpTo(n) == Join([i \in 1..n |-> log[i].resp.body])

\* every response of the operation is the one a worker holding the file gives
ServedFaithfully ==
    \A i \in 1..Len(log) :
        IF IsPageExchange(log[i])
        THEN log[i].resp = FaithfulPageResponse(log[i].req)
        ELSE log[i].resp = FaithfulFileStatusResponse

\* F[offset : min(offset + length, len(F))], byte by byte
FileSlice(offset, length) ==
    LET hi == IF offset + length <= Len(file) THEN offset + length ELSE Len(file)
        n == IF hi > offset THEN hi - offset ELSE 0
    IN  [i \in 1..n |-> file[offset + i]]

\* C1: a blocking read_range(path, offset, length) with length >= 1 whose page
\* requests the worker answers with the bytes of the file in the asked window,
\* clipped at the end of the file, returns F[offset : min(offset+length, len(F))]
C1_ReadRangeReturnsSlice ==
    (/\ SyncDone("read_range")
     /\ call.length >= 1
     /\ call.offset >= 0
     /\ ValidatePath(call.path)
     /\ Len(ring_log) = 1
     /\ OneWorkerEachLookup
     /\ ServedFaithfully)
        => result = Returned(FileSlice(call.offset, call.length))

\* a faithful read over three pages that starts inside the first page and runs
\* past the end of the file
C1_Witness ==
    /\ SyncDone("read_range")
    /\ call.length >= 1
    /\ ServedFaithfully
    /\ Len(log) = 3
    /\ call.offset % page_size # 0
    /\ call.offset + call.length > Len(file)
    /\ result = Returned(FileSlice(call.offset, call.length))
    /\ Len(result.value) >= 3

\* C2: in the blocking read_range, a page response shorter than the bytes asked
\* of that page, on a page that is not the last of the range, is the last
\* exchange: no page with a higher index is requested, and the result is the
\* responses up to and including it, concatenated in page order
C2_ShortReadStops ==
    (call.client = "sync" /\ call.op = "read_range" /\ call.length >= 1)
        => \A i \in 1..Len(log) :
            (/\ ~log[i].resp.err
             /\ ~RaiseForStatus(log[i].resp.status)
             /\ Len(log[i].resp.body) < log[i].req.q.page_length
             /\ log[i].req.q.page_index # EndPageIndex(call.offset, call.length))
                => /\ i = Len(log)
                   /\ \A j \in 1..Len(log) :
                        log[j].req.q.page_index <= log[i].req.q.page_index
                   /\ pc = "done"
                   /\ result = Returned(BodiesUpTo(i))

\* a three-page range whose second page came back short but not empty
C2_Witness ==
    /\ SyncDone("read_range")
    /\ call.length >= 1
    /\ EndPageIndex(call.offset, call.length) = StartPageIndex(call.offset) + 2
    /\ Len(log) = 2
    /\ log[2].resp.status = 200
    /\ Len(log[2].resp.body) > 0
    /\ Len(log[2].resp.body) < log[2].req.q.page_length
    /\ result = Returned(BodiesUpTo(2))

RequestFailed(resp) == resp.err \/ ~(200 <= resp.status /\ resp.status < 300)

\* C3: in the blocking read_range, a transport error or a non-2xx status on
\* the first page request makes it raise; on a later page request it makes it
\* return the pages already fetched; in both cases no further page is requested
C3_ReadFailureAsymmetry ==
    (call.client = "sync" /\ call.op = "read_range" /\ call.length >= 1)
        => \A i \in 1..Len(log) :
            RequestFailed(log[i].resp)
                => /\ i = Len(log)
                   /\ pc = "done"
                   /\ IF i = 1
                      THEN result.kind = "raise"
                      ELSE result = Returned(BodiesUpTo(i - 1))

\* the i-th page body of write(path, data): data[(i-1)*pageSize : min(i*pageSize, len(data))]
ExpectedPageBody(data, i) ==
    LET lo == (i - 1) * page_size
        hi == IF i * page_size <= Len(data) THEN i * page_size ELSE Len(data)
    IN  [k \in 1..(hi - lo) |-> data[lo + k]]

\* ceil(n / page_size)
PagesOf(n) == (n + page_size - 1) \div page_size

AllPagesAcknowledged ==
    \A i \in 1..Len(log) :
        ~log[i].resp.err /\ 200 <= log[i].resp.status /\ log[i].resp.status < 300

\* C4: the blocking write(path, data) with len(data) >= 1 posts the pages
\* 0, 1, 2, ... in that order, page i with the body
\* data[i*pageSize : min((i+1)*pageSize, len(data))], at most
\* ceil(len(data)/pageSize) of them, and returns True after posting all of
\* them when every post was answered with a 2xx status
C4_WritePagesInOrder ==
    (/\ call.client = "sync"
     /\ call.op = "write"
     /\ Len(call.file_bytes) >= 1)
        => /\ Len(log) <= PagesOf(Len(call.file_bytes))
           /\ \A i \in 1..Len(log) :
                log[i].req = WritePageRequest(i - 1, ExpectedPageBody(call.file_bytes, i))
           /\ (pc = "done" /\ Len(log) >= 1 /\ AllPagesAcknowledged)
                => /\ result = Returned(TRUE)
                   /\ Len(log) = PagesOf(Len(call.file_bytes))
                   /\ Join([i \in 1..Len(log) |-> log[i].req.data]) = call.file_bytes

\* a successful write of at least two pages whose last page is a remainder
C4_Witness ==
    /\ SyncDone("write")
    /\ result = Returned(TRUE)
    /\ AllPagesAcknowledged
    /\ Len(log) >= 2
    /\ Len(log[Len(log)].req.data) < page_size
    /\ Len(log[Len(log)].req.data) >= 1

\* C5: in the blocking write, a page post that gets a transport error or a
\* status outside [200,300) is the last one posted, and write raises
C5_WriteAbortsOnFailure ==
    (call.client = "sync" /\ call.op = "write")
        => \A i \in 1..Len(log) :
            RequestFailed(log[i].resp)
                => /\ i = Len(log)
                   /\ pc = "done"
                   /\ result.kind = "raise"

\* C6: read(path) right after write(path, data), both against a worker that
\* stores the posted pages and serves the stored file and its length, returns data
C6_RoundTrip ==
    (/\ SyncDone("read")
     /\ written # <<>>
     /\ OneWorkerEachLookup
     /\ Len(ring_log) >= 1
     /\ ServedFaithfully)
        => result = Returned(written[1])

\* the round trip of several pages plus a remainder
C6_Witness ==
    /\ SyncDone("read")
    /\ written # <<>>
    /\ ServedFaithfully
    /\ Len(written[1]) > 2 * page_size
    /\ Len(written[1]) % page_size # 0
    /\ result = Returned(written[1])

\* the path arguments of the operation in call
PathArguments ==
    IF "path2" \in DOMAIN call THEN {call.path, call.path2} ELSE {call.path}

\* C7: an operation of the blocking client that was given a path argument not
\* matching ^[A-Za-z0-9]+:// raises without a ring lookup and without a request
C7_PathValidationFirst ==
    (/\ pc = "done"
     /\ call.client = "sync"
     /\ \E path \in PathArguments : ~MatchesProtocol(path))
        => /\ result.kind = "raise"
           /\ ring_log = <<>>
           /\ log = <<>>

\* C8: read_range(path, offset, 0) with a valid path and offset >= 0 returns the
\* empty byte string without any request, in both clients
C8_ZeroLengthReadIsEmpty ==
    (/\ pc = "done"
     /\ call.op = "read_range"
     /\ call.length = 0
     /\ call.offset >= 0
     /\ ValidatePath(call.path))
        => /\ result = Returned(<<>>)
           /\ log = <<>>

\* the jobState a progress response carries, <<>> when it carries none
ReportedJobState(resp) ==
    IF resp.err \/ ~resp.body.json THEN <<>>
    ELSE IF "jobState" \in DOMAIN resp.body.value THEN resp.body.value.jobState
    ELSE <<>>

PollReported(i, name) == i >= 2 /\ i <= Len(log) /\ ReportedJobState(log[i].resp) = <<name>>

\* C9: in the blocking load, after an accepted submit: the poll that reports
\* SUCCEEDED, FAILED or STOPPED is the last request and load has returned, True
\* for SUCCEEDED and False for the other two; load returns True only then; a
\* poll that reports RUNNING or VERIFYING ends the flow only by the deadline
C9_LoadOutcome ==
    (call.client = "sync" /\ call.op = "load")
        => /\ \A i \in 2..Len(log) :
                /\ PollReported(i, "SUCCEEDED")
                    => i = Len(log) /\ pc = "done" /\ result = Returned(TRUE)
                /\ (PollReported(i, "FAILED") \/ PollReported(i, "STOPPED"))
                    => i = Len(log) /\ pc = "done" /\ result = Returned(FALSE)
                /\ (PollReported(i, "RUNNING") \/ PollReported(i, "VERIFYING"))
                    => \/ i < Len(log)
                       \/ pc \in {"load_sleep", "load_poll"}
                       \/ /\ pc = "done"
                          /\ call.timeout # <<>>
                          /\ result = Returned(FALSE)
           /\ (pc = "done" /\ result = Returned(TRUE))
                => PollReported(Len(log), "SUCCEEDED")

\* load returned True on its third poll, after RUNNING and VERIFYING
C9_Witness ==
    /\ SyncDone("load")
    /\ Len(log) = 4
    /\ PollReported(2, "RUNNING")
    /\ PollReported(3, "VERIFYING")
    /\ PollReported(4, "SUCCEEDED")
    /\ result = Returned(TRUE)

SubmitReportedFailure(resp) ==
    /\ ~resp.err
    /\ ~RaiseForStatus(resp.status)
    /\ resp.body.json
    /\ "success" \in DOMAIN resp.body.value
    /\ resp.body.value.success = FALSE

\* C10: when the submit response of the blocking load reports success = false,
\* load has returned False with that submit as its only request
C10_RejectedSubmitReturnsFalse ==
    (/\ call.client = "sync"
     /\ call.op = "load"
     /\ Len(log) >= 1
     /\ SubmitReportedFailure(log[1].resp))
        => /\ pc = "done"
           /\ result = Returned(FALSE)
           /\ Len(log) = 1
           /\ log[1].req = LoadRequest(call.path, "submit")

C10_Witness ==
    /\ SyncDone("load")
    /\ Len(log) = 1
    /\ SubmitReportedFailure(log[1].resp)
    /\ result = Returned(FALSE)

\* the i-th request of the load is a poll that reported RUNNING or VERIFYING
NonTerminalPoll(i) == PollReported(i, "RUNNING") \/ PollReported(i, "VERIFYING")

\* an accepted submit, then nothing but polls that reported RUNNING or VERIFYING
StaysNonTerminal == Len(log) >= 2 /\ \A i \in 2..Len(log) : NonTerminalPoll(i)

BlockingLoadWithTimeout ==
    call.client = "sync" /\ call.op = "load" /\ call.timeout # <<>>

\* what C11 says of a load whose deadline is the time the submit was accepted
\* (time 0 of the clock) plus call.timeout[1]
LoadKeepsDeadline ==
    /\ \A i \in 2..Len(log) : log[i].at <= call.timeout[1]
    /\ StaysNonTerminal =>
        /\ Len(log) - 1 <= call.timeout[1] \div SleepInterval + 1
        /\ pc \in {"load_sleep", "load_poll", "done"}
        /\ pc = "done" => result = Returned(FALSE)
    /\ (StaysNonTerminal /\ call.timeout[1] = 5) =>
        Len(log) = 2 /\ pc = "done" /\ result = Returned(FALSE)

\* C11 (amended to timeouts T >= 0): in the blocking load with timeout T >= 0,
\* no poll request starts later than the deadline (acceptance of the submit
\* + T); while every poll reports RUNNING or VERIFYING there are at most
\* T div 10 + 1 polls and the load returns False; with T = 5 there is a single
\* poll and the load returns False
C11_LoadDeadline ==
    (BlockingLoadWithTimeout /\ call.timeout[1] >= 0) => LoadKeepsDeadline

\* timeout 20, three polls at times 0, 10 and 20, all non-terminal
C11_Witness ==
    /\ SyncDone("load")
    /\ call.timeout = <<20>>
    /\ StaysNonTerminal
    /\ Len(log) = 4
    /\ log[4].at = 20
    /\ result = Returned(FALSE)

\* C11 as stated, for every timeout value T: no poll request of the blocking
\* load starts later than the deadline, and a job that stays non-terminal
\* makes it return False, after a single poll when T = 5
C11_LoadDeadlineEveryTimeout ==
    BlockingLoadWithTimeout => LoadKeepsDeadline

\* C12: in the blocking load with a timeout, right after a poll that reported
\* RUNNING or VERIFYING: if at least 10 time-units remain before the deadline
\* the load sleeps, the sleep lasts 10 time-units and is followed by a poll
\* that starts when it ends; otherwise the load returns False at once, with
\* no sleep and no further poll
C12_LoadSleepRule ==
    [][BlockingLoadWithTimeout =>
        /\ (pc = "load_poll" /\ Len(log') = Len(log) + 1 /\ NonTerminalPoll(Len(log))') =>
            /\ log'[Len(log')].at = now
            /\ IF call.timeout[1] - now' >= 10
               THEN pc' = "load_sleep"
               ELSE pc' = "done" /\ result' = Returned(FALSE)
        /\ pc = "load_sleep" =>
            /\ now' = now + 10
            /\ log' = log
            /\ pc' = "load_poll"]_vars

\* timeout 10: the first poll left exactly 10 time-units, so the load slept;
\* the second poll at time 10 left none, so the load returned False
C12_Witness ==
    /\ SyncDone("load")
    /\ call.timeout = <<10>>
    /\ StaysNonTerminal
    /\ Len(log) = 3
    /\ log[2].at = 0
    /\ log[3].at = 10
    /\ now = 10
    /\ result = Returned(FALSE)

BlockingLoadWithoutTimeout ==
    call.client = "sync" /\ call.op = "load" /\ call.timeout = <<>>

\* C13: the blocking load with timeout = None has not returned while every
\* poll so far reported RUNNING or VERIFYING, and its polls start at least 10
\* time-units apart; when the job ends and every request is answered, the
\* load eventually returns
C13_LoadWithoutTimeout ==
    /\ [](BlockingLoadWithoutTimeout =>
            /\ StaysNonTerminal => pc \in {"load_sleep", "load_poll"}
            /\ \A i \in 3..Len(log) : log[i].at >= log[i - 1].at + 10)
    /\ (BlockingLoadWithoutTimeout /\ pc \in {"load_submit", "load_poll", "load_sleep"})
            ~> (BlockingLoadWithoutTimeout /\ pc = "done")

\* without a timeout: RUNNING, then VERIFYING, then SUCCEEDED at time 20 or later
C13_Witness ==
    /\ SyncDone("load")
    /\ call.timeout = <<>>
    /\ Len(log) = 4
    /\ NonTerminalPoll(2)
    /\ NonTerminalPoll(3)
    /\ PollReported(4, "SUCCEEDED")
    /\ log[4].at >= 20
    /\ result = Returned(TRUE)

\* the response makes the submit step of the load fail: no connection, a
\* status that raise_for_status rejects, a body that is not JSON, or JSON
\* without the success field
SubmitResponseBroken(resp) ==
    \/ resp.err
    \/ RaiseForStatus(resp.status)
    \/ ~resp.body.json
    \/ "success" \notin DOMAIN resp.body.value

\* the same for a progress response and the jobState field
ProgressResponseBroken(resp) ==
    \/ resp.err
    \/ RaiseForStatus(resp.status)
    \/ ~resp.body.json
    \/ "jobState" \notin DOMAIN resp.body.value

\* C14: the blocking load raises only from its local validation, before the
\* first request; once a request was sent it ends with a boolean, and a
\* connection failure, a rejected status, a body that is not JSON, a submit
\* response without the success field or a progress response without
\* jobState, at the submit or at any poll, ends it at once with False
C14_LoadNeverRaises ==
    (call.client = "sync" /\ call.op = "load")
        => /\ (pc = "done" /\ result.kind = "raise") => log = <<>>
           /\ (pc = "done" /\ log # <<>>) => result.kind = "return" /\ result.value \in BOOLEAN
           /\ \A i \in 1..Len(log) :
                (IF i = 1 THEN SubmitResponseBroken(log[i].resp)
                          ELSE ProgressResponseBroken(log[i].resp))
                    => i = Len(log) /\ pc = "done" /\ result = Returned(FALSE)

\* the second poll of a load got no connection
C14_Witness ==
    /\ SyncDone("load")
    /\ Len(log) = 3
    /\ NonTerminalPoll(2)
    /\ log[3].resp.err
    /\ result = Returned(FALSE)

\* the progress response carries a jobState string with "FAILED" inside it
CarriesFailed(resp) ==
    /\ ReportedJobState(resp) # <<>>
    /\ \E k \in 1..Len(ReportedJobState(resp)) : ReportedJobState(resp)[k] = "FAILED"

\* the load flow of either client is running or has ended
LoadFlow ==
    \/ call.client = "sync" /\ call.op = "load"
    \/ call.client = "async" /\ call.op = "_load_file"

\* C15: a progress response whose jobState contains "FAILED" makes the poll
\* give the state FAILED, and makes a load in progress return False at once
\* without raising, in the blocking and in the suspend-capable client
C15_FailedSubstringNormalised ==
    /\ (/\ pc = "done"
        /\ call.op = "load_progress"
        /\ Len(log) = 1
        /\ CarriesFailed(log[1].resp))
            => result.kind = "return" /\ result.value[1] = "FAILED"
    /\ LoadFlow =>
        \A i \in 2..Len(log) :
            CarriesFailed(log[i].resp)
                => i = Len(log) /\ pc = "done" /\ result = Returned(FALSE)

\* a response that is well-formed JSON from an accepted request, without jobState
WellFormedWithoutJobState(resp) ==
    /\ ~resp.err
    /\ ~RaiseForStatus(resp.status)
    /\ resp.body.json
    /\ "jobState" \notin DOMAIN resp.body.value

\* C16: load_progress of the blocking client, answered with well-formed JSON
\* that has no jobState field, raises after that one request and returns no
\* state; inside load such a poll is the last request as well
C16_MissingJobStateIsFatal ==
    /\ (/\ call.client = "sync"
        /\ call.op = "load_progress"
        /\ Len(log) >= 1
        /\ WellFormedWithoutJobState(log[1].resp))
            => /\ pc = "done"
               /\ result.kind = "raise"
               /\ Len(log) = 1
               /\ log[1].req = LoadRequest(call.path, "progress")
    /\ (call.client = "sync" /\ call.op = "load")
            => \A i \in 2..Len(log) :
                WellFormedWithoutJobState(log[i].resp) => i = Len(log) /\ pc = "done"

C16_Witness ==
    /\ SyncDone("load_progress")
    /\ Len(log) = 1
    /\ WellFormedWithoutJobState(log[1].resp)
    /\ result = Raised("Exception")

\* the metadata lookup of read fails on this response
MetadataLookupFailed(resp) ==
    \/ resp.err
    \/ RaiseForStatus(resp.status)
    \/ ~resp.body.json
    \/ Len(resp.body.value) = 0
    \/ ~resp.body.value[1].complete

\* the bodies of the page responses that follow the metadata lookup of read,
\* those that _read_page accepted, in the order received
PagesAfterLookup ==
    LET pages == SelectSeq(SubSeq(log, 2, Len(log)), LAMBDA e : ~ReadPageFails(e.resp))
    IN  Join([i \in 1..Len(pages) |-> pages[i].resp.body])

\* what read_range(path, 0, L) does, seen in the requests after the lookup
\* and in the outcome: its page requests in page order, its error when the
\* ring or the first page fails, its joined pages otherwise
BehavesAsReadRangeFromZero(L) ==
    /\ \A i \in 2..Len(log) :
        log[i].req = PageRequest(i - 2, ReadOffset(i - 2, 0, L), ReadLength(i - 2, 0, L))
    /\ Len(log) - 1 <= EndPageIndex(0, L) + 1
    /\ pc = "done" =>
        IF Len(log) = 1
        THEN result.kind = "raise" /\ Len(ring_log) = 2 /\ Len(ring_log[2]) # 1
        ELSE IF ReadPageFails(log[2].resp)
        THEN result.kind = "raise" /\ Len(log) = 2
        ELSE result = Returned(PagesAfterLookup)

\* C17: the blocking read(path) first makes one metadata lookup; when it
\* fails, read raises and no page is requested; when it reports length 0,
\* read returns the empty byte string and no page is requested; when it
\* reports L > 0, read requests and returns what read_range(path, 0, L) does
C17_ReadIsReadRangeFromZero ==
    (call.client = "sync" /\ call.op = "read" /\ Len(log) >= 1)
        => /\ log[1].req = FileStatusRequest(call.path)
           /\ IF MetadataLookupFailed(log[1].resp)
              THEN pc = "done" /\ result.kind = "raise" /\ Len(log) = 1
              ELSE IF log[1].resp.body.value[1].mLength = 0
              THEN pc = "done" /\ result = Returned(<<>>) /\ Len(log) = 1
              ELSE BehavesAsReadRangeFromZero(log[1].resp.body.value[1].mLength)

\* a read whose lookup reported three bytes or more, served over at least two pages
C17_Witness ==
    /\ SyncDone("read")
    /\ Len(log) >= 3
    /\ log[1].resp.body.value[1].mLength >= 3
    /\ result.kind = "return"
    /\ Len(result.value) = log[1].resp.body.value[1].mLength

\* C18: an operation sends a request only after the ring returned exactly one
\* worker; a lookup that returns no worker or several is the last thing the
\* operation does: it raises, and the only requests it has sent are those
\* routed by its earlier lookups (none for a first lookup, the metadata
\* request for the second lookup of a read)
C18_ExactlyOneWorker ==
    /\ log # <<>> => ring_log # <<>> /\ Len(ring_log[1]) = 1
    /\ \A i \in 1..Len(ring_log) :
        Len(ring_log[i]) # 1
            => /\ i = Len(ring_log)
               /\ pc = "done"
               /\ result.kind = "raise"
               /\ Len(log) = i - 1

\* the ring returned two workers at the second lookup of read, after the metadata request
C18_Witness ==
    /\ SyncDone("read")
    /\ Len(ring_log) = 2
    /\ Len(ring_log[2]) = 2
    /\ Len(log) = 1
    /\ result.kind = "raise"

\* C19: the suspend-capable read_range over a range of k >= 2 pages, with a
\* valid path and one worker from the ring, sends one request for each of the
\* k pages and, when all of them are answered, returns the k bodies
\* concatenated in ascending page order
C19_AsyncPagesGathered ==
    (/\ pc = "done"
     /\ call.client = "async"
     /\ call.op = "read_range"
     /\ ValidatePath(call.path)
     /\ call.offset >= 0
     /\ call.length >= 1
     /\ Len(ring_log) = 1
     /\ OneWorkerEachLookup
     /\ EndPageIndex(call.offset, call.length) > StartPageIndex(call.offset))
        => LET k == EndPageIndex(call.offset, call.length) - StartPageIndex(call.offset) + 1
           IN  /\ Len(log) = k
               /\ \A i \in 1..Len(log) :
                    log[i].req.q.page_index = StartPageIndex(call.offset) + i - 1
               /\ (\A i \in 1..Len(log) : ~log[i].resp.err)
                    => result = Returned(BodiesUpTo(Len(log)))

\* what the blocking load returns when the response just received ends it:
\* True exactly when that response is a poll reporting SUCCEEDED
BlockingLoadVerdict == Len(log) >= 2 /\ PollReported(Len(log), "SUCCEEDED")

\* C20: awaiting the load of the suspend-capable client gives a boolean; the
\* flow sends the submit request and then progress requests for the same
\* path as the blocking load does, two consecutive polls are at least 10
\* time-units apart, and for the responses received it ends with the
\* boolean the blocking load returns for them
C20_AsyncLoadRefinesLoad ==
    /\ (/\ pc = "done"
        /\ call.client = "async"
        /\ call.op = "load"
        /\ ValidatePath(call.path)
        /\ Len(ring_log) = 1
        /\ OneWorkerEachLookup)
            => result = Returned(TRUE) \/ result = Returned(FALSE)
    /\ (call.client = "async" /\ call.op = "_load_file")
            => /\ \A i \in 1..Len(log) :
                    log[i].req.q = LoadRequest(call.path, IF i = 1 THEN "submit"
                                                                   ELSE "progress").q
               /\ \A i \in 3..Len(log) : log[i].at >= log[i - 1].at + 10
               /\ pc = "done" => result = Returned(BlockingLoadVerdict)

Max(a, b) == IF a >= b THEN a ELSE b

\* the blocking read_range over page requests, after its local checks passed
BlockingPagedReadRange ==
    /\ call.client = "sync"
    /\ call.op = "read_range"
    /\ call.length >= 1
    /\ call.offset >= 0

\* every page so far came back whole: no failure, no short body
NoPageShortOrFailed ==
    \A i \in 1..Len(log) :
        /\ ~log[i].resp.err
        /\ ~RaiseForStatus(log[i].resp.status)
        /\ Len(log[i].resp.body) = log[i].req.q.page_length

RECURSIVE SumOfPageLengths(_)
SumOfPageLengths(n) ==
    IF n = 0 THEN 0 ELSE log[n].req.q.page_length + SumOfPageLengths(n - 1)

\* C21: the i-th request of the blocking read_range(path, offset, length),
\* length >= 1, is for page p = offset div pageSize + i - 1, which is at most
\* (offset+length-1) div pageSize, with in-page offset
\* max(offset, p*pageSize) - p*pageSize and in-page length
\* min(offset+length, (p+1)*pageSize) - max(offset, p*pageSize); when no page
\* was short or failed, the finished call has requested every page of the
\* range once and the requested lengths sum to length
C21_PageAddressing ==
    BlockingPagedReadRange =>
        /\ \A i \in 1..Len(log) :
            LET p == call.offset \div page_size + i - 1
                lo == Max(call.offset, p * page_size)
                hi == Min(call.offset + call.length, (p + 1) * page_size)
            IN  /\ p <= (call.offset + call.length - 1) \div page_size
                /\ log[i].req.q.page_index = p
                /\ log[i].req.q.page_offset = lo - p * page_size
                /\ log[i].req.q.page_length = hi - lo
        /\ (pc = "done" /\ Len(log) >= 1 /\ NoPageShortOrFailed) =>
            /\ Len(log) = (call.offset + call.length - 1) \div page_size
                              - call.offset \div page_size + 1
            /\ SumOfPageLengths(Len(log)) = call.length
            /\ result.kind = "return"
            /\ Len(result.value) = call.length

\* three pages: the range starts inside the first and ends inside the third
C21_Witness ==
    /\ SyncDone("read_range")
    /\ BlockingPagedReadRange
    /\ NoPageShortOrFailed
    /\ Len(log) = 3
    /\ log[1].req.q.page_offset > 0
    /\ log[3].req.q.page_length < page_size
    /\ Len(result.value) = call.length

\* read_range with length >= 1 on any of its three paths
PagedReadRange ==
    /\ call.op = "read_range"
    /\ call.client \in {"sync", "alluxiocommon", "async"}
    /\ call.length >= 1
    /\ call.offset >= 0

\* C22: in read_range (sequential, batched, suspend-capable) a page that the
\* range covers entirely is requested with the offset-free full-page request
\* {pageIndex}, and a page covered partly with the ranged request carrying
\* pageOffset and pageLength
C22_RequestShape ==
    PagedReadRange =>
        \A i \in 1..Len(log) :
            LET p == log[i].req.q.page_index
                lo == Max(call.offset, p * page_size)
                hi == Min(call.offset + call.length, (p + 1) * page_size)
            IN  IF hi - lo = page_size
                THEN log[i].req = FullPageRequest(p)
                ELSE log[i].req = PageRequest(p, lo - p * page_size, hi - lo)

\* C23: read_range with length >= 1, sequential, batched or suspend-capable,
\* requests no page below offset div pageSize and none above
\* (offset+length-1) div pageSize; so when offset+length is a multiple of
\* pageSize the page starting at byte offset+length is not requested
C23_NoPageOutsideRange ==
    PagedReadRange =>
        \A i \in 1..Len(log) :
            /\ log[i].req.q.page_index >= call.offset \div page_size
            /\ log[i].req.q.page_index <= (call.offset + call.length - 1) \div page_size
            /\ (call.offset + call.length) % page_size = 0
                => log[i].req.q.page_index # (call.offset + call.length) \div page_size

\* a sequential read of two pages or more that ends at a page boundary, every
\* page came back full, and the file goes on after the range
C23_Witness ==
    /\ SyncDone("read_range")
    /\ BlockingPagedReadRange
    /\ (call.offset + call.length) % page_size = 0
    /\ Len(file) > call.offset + call.length
    /\ NoPageShortOrFailed
    /\ Len(log) >= 2
    /\ Len(result.value) = call.length

\* C24: write_page of either client, with a valid path and one worker from
\* the ring, sends exactly one POST; it returns True when the response status
\* is in [200,300) and raises for any other status and for a transport error
C24_WritePageOutcome ==
    (/\ pc = "done"
     /\ call.op = "write_page"
     /\ ValidatePath(call.path)
     /\ Len(ring_log) = 1
     /\ OneWorkerEachLookup)
        => /\ Len(log) = 1
           /\ log[1].req = WritePageRequest(call.page_index, call.page_bytes)
           /\ IF ~log[1].resp.err /\ 200 <= log[1].resp.status /\ log[1].resp.status < 300
              THEN result = Returned(TRUE)
              ELSE result.kind = "raise"

\* data[(i-1)*chunkSize : min(i*chunkSize, len(data))], byte by byte
ExpectedSlice(data, chunk_size, i) ==
    LET lo == (i - 1) * chunk_size
        hi == IF i * chunk_size <= Len(data) THEN i * chunk_size ELSE Len(data)
    IN  [k \in 1..(hi - lo) |-> data[lo + k]]

\* C25: write_chunked(path, data, chunkSize), chunkSize >= 1, of the blocking
\* client sends at most one request, a POST whose body is the finite sequence
\* of ceil(len(data)/chunkSize) slices data[i*chunkSize : (i+1)*chunkSize] in
\* order: all but the last have chunkSize bytes, none is empty, together they
\* are data, and for empty data there is none
C25_ChunkSlices ==
    (call.client = "sync" /\ call.op = "write_chunked")
        => /\ Len(log) <= 1
           /\ (pc = "done" /\ result.kind = "return") => Len(log) = 1
           /\ Len(log) = 1 =>
                LET body == log[1].req.data
                    data == call.file_bytes
                    c == call.chunk_size
                IN  /\ log[1].req.method = "POST"
                    /\ Len(body) = (Len(data) + c - 1) \div c
                    /\ \A i \in 1..Len(body) :
                        /\ body[i] = ExpectedSlice(data, c, i)
                        /\ Len(body[i]) >= 1
                        /\ i < Len(body) => Len(body[i]) = c
                    /\ Join(body) = data
                    /\ data = <<>> => body = <<>>

\* five bytes in chunks of two: three slices, the last of one byte
C25_Witness ==
    /\ SyncDone("write_chunked")
    /\ Len(call.file_bytes) = 5
    /\ call.chunk_size = 2
    /\ Len(log) = 1
    /\ Len(log[1].req.data) = 3
    /\ Len(log[1].req.data[3]) = 1
    /\ result = Returned(TRUE)

\* the request carries the chunked transfer header or goes to a chunk endpoint
IsChunkedRequest(req) ==
    \/ req.url \in {"FULL_CHUNK_URL_FORMAT", "WRITE_CHUNK_URL_FORMAT"}
    \/ "headers" \in DOMAIN req /\ "transfer-type: chunked" \in req.headers

\* C26: read_chunked of the blocking client, with a valid path and one worker
\* from the ring, sends exactly one GET, to the chunk endpoint with the
\* header transfer-type: chunked, and returns the bytes received when the
\* response is accepted; read, read_range, write and write_page never send a
\* request with that header or to a chunk endpoint
C26_ChunkedOnlyWhenAsked ==
    /\ (/\ SyncDone("read_chunked")
        /\ ValidatePath(call.path)
        /\ Len(ring_log) = 1
        /\ OneWorkerEachLookup)
            => /\ Len(log) = 1
               /\ log[1].req.method = "GET"
               /\ log[1].req.url = "FULL_CHUNK_URL_FORMAT"
               /\ "transfer-type: chunked" \in log[1].req.headers
               /\ (~log[1].resp.err /\ ~RaiseForStatus(log[1].resp.status))
                    => result = Returned(log[1].resp.body)
    /\ call.op \in {"read", "read_range", "write", "write_page"}
            => \A i \in 1..Len(log) : ~IsChunkedRequest(log[i].req)

\* read_chunked returned a body of three bytes or more, received in chunks of two
C26_Witness ==
    /\ SyncDone("read_chunked")
    /\ call.chunk_size = 2
    /\ Len(log) = 1
    /\ IsChunkedRequest(log[1].req)
    /\ result.kind = "return"
    /\ Len(result.value) >= 3
    /\ result.value = log[1].resp.body

\* what read_range(path, offset, L) does, seen in the requests after the
\* metadata lookup and in the outcome of a finished call
BehavesAsReadRange(offset, L) ==
    IF L = 0 THEN result = Returned(<<>>) /\ Len(log) = 1
    ELSE IF L < 0 THEN result.kind = "raise" /\ Len(log) = 1
    ELSE /\ \A i \in 2..Len(log) :
              LET p == StartPageIndex(offset) + i - 2
              IN  log[i].req = PageRequest(p, ReadOffset(p, offset, L), ReadLength(p, offset, L))
         /\ Len(log) >= 2
         /\ IF ReadPageFails(log[2].resp)
            THEN result.kind = "raise" /\ Len(log) = 2
            ELSE result = Returned(PagesAfterLookup)

\* C27: a finished read_range(path, offset, -1) of the blocking or of the
\* suspend-capable client, with a valid path, an offset of 0 or more and one
\* worker from every ring lookup, has sent the metadata lookup as its first
\* request, and when the lookup reported length L it has requested and
\* returned what read_range(path, offset, L - offset) does
C27_OpenEndedResolvedFirst ==
    (/\ pc = "done"
     /\ call.op = "read_range"
     /\ call.client \in {"sync", "async"}
     /\ call.length = -1
     /\ ValidatePath(call.path)
     /\ call.offset >= 0
     /\ ring_log # <<>>
     /\ OneWorkerEachLookup)
        => /\ Len(log) >= 1
           /\ log[1].req = FileStatusRequest(call.path)
           /\ IF MetadataLookupFailed(log[1].resp)
              THEN result.kind = "raise" /\ Len(log) = 1
              ELSE BehavesAsReadRange(call.offset,
                                      log[1].resp.body.value[1].mLength - call.offset)

\* read_range was called with a length, and the offset or the length is an
\* integer it does not take
BadRangeArguments ==
    /\ call.op = "read_range"
    /\ \/ call.offset < 0
       \/ call.length < 0 /\ call.length # -1

\* the call raised a validation error before any ring lookup and any request
RaisedLocally ==
    /\ result = Raised("ValueError")
    /\ log = <<>>
    /\ ring_log = <<>>

C29_OneLookupPerOperation ==
    (call.client = "sync" /\ call.op \in {"read", "read_range", "write", "load"})
        => Len(ring_log) <= 1

\* a worker lookup has finished
LookupDone == pc = "done" /\ call.op = "_get_preferred_worker_address"

\* C30: a worker lookup that runs beside membership refreshes returns the
\* worker that one of the complete rings in use during the lookup assigns to
\* the path: it never fails for want of a worker and never returns a worker
\* read from a ring under construction
C30_ResolveSeesWholeRing ==
    LookupDone
        => /\ result.kind = "return"
           /\ \E ring \in frame.live : <<result.value>> = WorkersOfRing(ring, call.path)

\* a lookup during which a refresh installed a ring that assigns the path to
\* another worker than the ring before it
C30_Witness ==
    /\ LookupDone
    /\ Cardinality(frame.live) >= 2
    /\ \E old \in frame.live, new \in frame.live :
        WorkersOfRing(old, call.path) # WorkersOfRing(new, call.path)
    /\ result.kind = "return"

\* the call is a write or a write_chunked of a client with the batch fetcher
BatchedWriteCall ==
    call.client = "alluxiocommon" /\ call.op \in {"write", "write_chunked"}

\* C31: with the batch fetcher configured, write and write_chunked send no
\* GET; a finished write that raised nothing has POSTed one request per page
\* of the data, a finished write_chunked one POST, and what they return is a
\* boolean
C31_WritesUnchangedByBatchFetcher ==
    BatchedWriteCall
        => /\ \A i \in 1..Len(log) : log[i].req.method = "POST"
           /\ (pc = "done" /\ result.kind = "return")
                => /\ Len(log) >= 1
                   /\ "value" \in DOMAIN result
                   /\ result.value \in BOOLEAN

\* C32: a blocking write(path, data) that returned True has posted
\* max(1, ceil(len(data)/pageSize)) pages: for empty data the one page 0 with
\* an empty body, and for data of one byte or more no page with an empty body
C32_NumberOfPageWrites ==
    (SyncDone("write") /\ result = Returned(TRUE))
        => /\ Len(log) = Max(1, PagesOf(Len(call.file_bytes)))
           /\ \A i \in 1..Len(log) : log[i].req.url = "WRITE_PAGE_URL_FORMAT"
           /\ Len(call.file_bytes) = 0 => log[1].req = WritePageRequest(0, <<>>)
           /\ Len(call.file_bytes) >= 1 => \A i \in 1..Len(log) : Len(log[i].req.data) >= 1

\* a successful write of data that fills two pages or more exactly
C32_Witness ==
    /\ SyncDone("write")
    /\ result = Returned(TRUE)
    /\ Len(call.file_bytes) >= 2 * page_size
    /\ Len(call.file_bytes) % page_size = 0
    /\ Len(log) * page_size = Len(call.file_bytes)

\* a 200 response with a JSON body whose jobState is a string that neither
\* contains "FAILED" nor is the name of a LoadState
UnknownJobState(resp) ==
    /\ ~resp.err
    /\ ~RaiseForStatus(resp.status)
    /\ resp.body.json
    /\ "jobState" \in DOMAIN resp.body.value
    /\ ~ContainsFailed(resp.body.value.jobState)
    /\ resp.body.value.jobState \notin {<<v>> : v \in LoadStateValues}

\* C33: load_progress raises when the jobState of the response is not a
\* known state; a poll of the blocking load answered that way is the last
\* request of the load, which returns False with no sleep after it
C33_UnknownJobStateNotMapped ==
    /\ (SyncDone("load_progress") /\ Len(log) = 1 /\ UnknownJobState(log[1].resp))
            => result = Raised("Exception")
    /\ (call.client = "sync" /\ call.op = "load")
            => \A i \in 2..Len(log) :
                UnknownJobState(log[i].resp)
                    => i = Len(log) /\ pc = "done" /\ result = Returned(FALSE)

\* a load whose second poll, after one sleep, reported an unknown jobState
C33_Witness ==
    /\ SyncDone("load")
    /\ Len(log) = 3
    /\ UnknownJobState(log[3].resp)
    /\ log[3].at >= SleepInterval
    /\ result = Returned(FALSE)

\* floor(max(T, 0) / 10) for the timeout T of the call
MaxSleeps == Max(call.timeout[1], 0) \div SleepInterval

\* the progress requests sent so far by a load whose submit has been sent
PollsSent == Len(log) - 1

\* the submit of the load was answered with success
SubmitAccepted ==
    /\ Len(log) >= 1
    /\ ~SubmitResponseBroken(log[1].resp)
    /\ log[1].resp.body.value.success

\* what C34 bounds: every sleep is followed by a poll, so a load that is
\* sleeping or about to poll again has slept as often as it has polled
LoadWithinItsBudget ==
    /\ PollsSent <= MaxSleeps + 1
    /\ (pc = "load_sleep" \/ (pc = "load_poll" /\ PollsSent >= 1)) => PollsSent <= MaxSleeps
    /\ (pc = "done" /\ StaysNonTerminal) => result = Returned(FALSE)
    /\ (pc = "done" /\ SubmitAccepted) => PollsSent >= 1

\* C34: the blocking load with a finite timeout T sleeps at most
\* floor(max(T,0)/10) times and polls at most floor(max(T,0)/10) + 1 times,
\* returns False when the job stays non-terminal, polls at least once after
\* an accepted submit whatever T is, and, every request being answered,
\* always returns
C34_TimedLoadTerminates ==
    /\ []((BlockingLoadWithTimeout /\ Len(log) >= 1) => LoadWithinItsBudget)
    /\ (BlockingLoadWithTimeout /\ pc \in {"load_submit", "load_poll", "load_sleep"})
            ~> (BlockingLoadWithTimeout /\ pc = "done")

\* timeout 10: one sleep, two polls that reported a non-terminal state, False
C34_Witness ==
    /\ SyncDone("load")
    /\ call.timeout = <<10>>
    /\ StaysNonTerminal
    /\ PollsSent = 2
    /\ MaxSleeps = 1
    /\ result = Returned(FALSE)

\* C35: a blocking write_chunked that has sent its POST returns True when the
\* status of the response is 200, returns False for every other status, and
\* raises when, and only when, the request got no response
C35_WriteChunkedOutcome ==
    (SyncDone("write_chunked") /\ Len(log) = 1)
        => /\ log[1].req.method = "POST"
           /\ IF log[1].resp.err
              THEN result.kind = "raise"
              ELSE result = Returned(log[1].resp.status = 200)

\* a write_chunked answered 201: it returned False
C35_Witness ==
    /\ SyncDone("write_chunked")
    /\ Len(log) = 1
    /\ ~log[1].resp.err
    /\ log[1].resp.status = 201
    /\ result = Returned(FALSE)

\* C36: the suspend-capable client makes at most one session, however its
\* requests interleave; every request goes through the session the client
\* holds; reading the session property before any request has made the
\* session raises RuntimeError
C36_OneSessionPerClient ==
    /\ session.created <= 1
    /\ call.op = "_request"
            => \A k \in 1..Len(log) :
                log[k].req.session = session.current /\ session.current # 0
    /\ (pc = "done" /\ call.op = "session" /\ session.created = 0)
            => result = Raised("RuntimeError")

\* three requests in flight at once, all through the one session
C36_Witness ==
    /\ pc = "requests"
    /\ Len(frame.tasks) = 3
    /\ \A i \in 1..3 : frame.tasks[i] = "awaiting"
    /\ Len(log) = 3
    /\ session.created = 1

\* the first byte of the file that the entry u of a URL list asks for, and
\* how many bytes it asks for: a full-page entry asks for the whole page
UrlStart(u) ==
    u.q.page_index * page_size
        + (IF u.url = "FULL_PAGE_URL_FORMAT" THEN 0 ELSE u.q.page_offset)

UrlLength(u) == IF u.url = "FULL_PAGE_URL_FORMAT" THEN page_size ELSE u.q.page_length

RECURSIVE SumOfUrlLengths(_)
SumOfUrlLengths(urls) ==
    IF urls = <<>> THEN 0 ELSE UrlLength(Head(urls)) + SumOfUrlLengths(Tail(urls))

\* a read_range with an explicit length of 1 or more on the batched path,
\* once its URL list is built
BatchedListBuilt ==
    /\ call.client = "alluxiocommon"
    /\ call.op = "read_range"
    /\ call.offset >= 0
    /\ call.length >= 1
    /\ pc = "batch_fetch" \/ (pc = "done" /\ log # <<>>)

\* the URL list: what the fetcher is about to get, or what it has sent
BatchedUrlList ==
    IF pc = "batch_fetch" THEN frame.read_urls ELSE [i \in 1..Len(log) |-> log[i].req]

\* C37: the URL list of a batched read_range(path, offset, length) with
\* length >= 1 has one entry for each page from offset div pageSize to
\* (offset+length-1) div pageSize, in ascending order; every entry asks for
\* one byte or more of its page, the first entry starts at offset, each
\* entry starts where the one before ends, the last ends at offset+length,
\* and the lengths add up to length; the whole list goes to the fetcher in
\* one call
C37_BatchedUrlListTilesRange ==
    BatchedListBuilt
        => LET urls == BatchedUrlList
               first == call.offset \div page_size
               last == (call.offset + call.length - 1) \div page_size
           IN  /\ Len(urls) = last - first + 1
               /\ \A k \in 1..Len(urls) :
                    /\ urls[k].q.page_index = first + k - 1
                    /\ UrlLength(urls[k]) >= 1
                    /\ UrlStart(urls[k]) + UrlLength(urls[k])
                            <= (urls[k].q.page_index + 1) * page_size
                    /\ k > 1 => UrlStart(urls[k]) = UrlStart(urls[k - 1]) + UrlLength(urls[k - 1])
               /\ UrlStart(urls[1]) = call.offset
               /\ UrlStart(urls[Len(urls)]) + UrlLength(urls[Len(urls)])
                        = call.offset + call.length
               /\ SumOfUrlLengths(urls) = call.length

\* a range that starts and ends inside a page with a whole page in between,
\* fetched in one call
C37_Witness ==
    /\ BatchedListBuilt
    /\ pc = "done"
    /\ result.kind = "return"
    /\ Len(log) = 3
    /\ log[1].req.url = "PAGE_URL_FORMAT"
    /\ log[2].req.url = "FULL_PAGE_URL_FORMAT"
    /\ log[3].req.url = "PAGE_URL_FORMAT"
    /\ UrlStart(log[1].req) > log[1].req.q.page_index * page_size

====
